---- MODULE Spec2Model ----
(***************************************************************************)
(* Model of the audience-intelligence service (src/cosmetics.py): the      *)
(* client store, the audience store, the in-memory task registry, the      *)
(* ingestion background task, the generation background task and the       *)
(* task-status query.                                                       *)
(*                                                                         *)
(* The ingestion task and the handlers declared with `def` run on worker   *)
(* threads; the handlers declared with `async def` and the generation task *)
(* are coroutines of the one event loop.  Each is split into one action    *)
(* per access to shared state (the registry `tasks`, the two Mongo         *)
(* collections); everything done between two such accesses is part of the  *)
(* action that follows it.  A thread's step may come between any two       *)
(* steps; a coroutine's step comes between two steps of another coroutine  *)
(* only where that one awaits.                                             *)
(*                                                                         *)
(* Strings the code builds are kept as the code builds them where they are *)
(* compared (statuses); timestamps written to documents that no code reads *)
(* back (created_at, fetched_at, data_fetched_at, start_time) are left out *)
(* of the documents.                                                       *)
(***************************************************************************)
EXTENDS Integers, Sequences, FiniteSets, Bags, TLC

(* ------------------------------ bounds -------------------------------- *)

\* number of task identifiers handed out (uuid4 values, modelled 1..MaxTasks)
MaxTasks == 2

\* clients /register creates at most
MaxClients == 1

\* items the profile source serves in all, over every run
MaxItems == 2

\* clock ticks that may pass while no run is asleep
MaxTime == 1

(* ----------------------------- constants ------------------------------ *)

\* time.sleep(2) before a finished ingestion task is deleted
SleepSecs == 2

SupportedPlatforms == {"instagram", "linkedin", "facebook"}

\* str.lower() on platform names, which the model keeps whole
Lower(s) ==
  CASE s \in {"Instagram", "INSTAGRAM"} -> "instagram"
    [] s \in {"LinkedIn", "Linkedin", "LINKEDIN"} -> "linkedin"
    [] s \in {"Facebook", "FaceBook", "FACEBOOK"} -> "facebook"
    [] s \in {"TikTok", "Tiktok", "TIKTOK"} -> "tiktok"
    [] OTHER -> s

(* ------------------------------ inputs -------------------------------- *)

TaskIds == 1..MaxTasks

\* client identifiers (uuid4 values): a request may name one that /register
\* has handed out or one that it has not
ClientIds == {"c1", "c2"}

\* platform strings offered to /register
RegisterPlatforms == {"Instagram", "TikTok"}

\* Raw records of the profile source.  For the three fields the key is
\* computed from, "" stands for a missing key and for a key that holds None
\* or "" (all falsy in Python); `haskeys` says whether the dict holds any
\* key at all, whatever its value: {"profileUrl": None} and {"likes": 3}
\* are both RawRecord("", "", "", TRUE), {} and None are rEmpty.
RawRecord(url, pid, key, haskeys) ==
  [profileUrl |-> url, publicIdentifier |-> pid, unique_key |-> key,
   haskeys |-> haskeys]

rEmpty == RawRecord("", "", "", FALSE)
rUrl == RawRecord("u1", "u2", "", TRUE)
rBare == RawRecord("", "", "", TRUE)

RawRecords == {rEmpty, rUrl, rBare}

RECURSIVE SeqsUpTo(_, _)
SeqsUpTo(S, n) ==
  IF n = 0 THEN {<<>>}
  ELSE LET shorter == SeqsUpTo(S, n - 1)
       IN shorter \cup {Append(s, x) : s \in {q \in shorter : Len(q) = n - 1}, x \in S}

\* item lists of at most n records the profile source may return
Datasets(n) == SeqsUpTo(RawRecords, n)

(* --------------------------- pure functions --------------------------- *)

\* bool(r) of a raw record: a dict is truthy when it has a key, whatever
\* the values; an empty dict (or None) is falsy
Truthy(r) == r.haskeys

\* f"{platform}_{i}_{datetime.utcnow().timestamp()}"
SyntheticKey(platform, i, ts) == <<platform, i, ts>>

\* r.get("profileUrl") or r.get("publicIdentifier") or r.get("unique_key")
\*   or f"{platform}_{i}_{timestamp}"
UniqueKey(r, platform, i, ts) ==
  IF r.profileUrl # "" THEN <<r.profileUrl>>
  ELSE IF r.publicIdentifier # "" THEN <<r.publicIdentifier>>
  ELSE IF r.unique_key # "" THEN <<r.unique_key>>
  ELSE SyntheticKey(platform, i, ts)

\* f"failed: {str(e)}" for the exceptions the model raises
FailedStatus(e) ==
  CASE e = "Client not found" -> "failed: Client not found"
    [] e = "store error" -> "failed: store error"
    [] e = "kickoff error" -> "failed: kickoff error"
    [] OTHER -> "failed: error"

\* dict.update / Mongo "$set": the keys of upd are written over those of d
SetFields(d, upd) ==
  [k \in DOMAIN d \cup DOMAIN upd |-> IF k \in DOMAIN upd THEN upd[k] ELSE d[k]]

\* del d[k]
DelKey(d, k) == [x \in DOMAIN d \ {k} |-> d[x]]

(* ------------------------------- state -------------------------------- *)

VARIABLES
  clients,    \* clients_collection: client_id -> document (a dict)
  audience,   \* audience_collection: a bag of stored documents (no unique index)
  tasks,      \* the global task registry: task_id -> dict
  proc,       \* one frame per background task: its position and its locals
  nextTask,   \* the next fresh task identifier
  now,        \* the wall clock
  served,     \* the number of items the profile source has served so far
  lastRun,    \* history: per client, the item list of its last completed run
  resp,       \* the body of the /task-status response being returned
  handler,    \* the frame of the /generate-messages handler that is running
  store,      \* what audience_collection holds when the retrieval tool runs,
              \*   in the order find() returns it
  call,       \* the arguments of one call of the retrieval tool
  tool,       \* the frame of that call: its position, its locals, its result
  crew        \* one run of the three-task crew: the tasks started, their
              \*   contexts and their outputs

\* the variables of the generation pipeline (src/pipeline_utils.py)
toolVars == <<store, call, tool, crew>>

vars == <<clients, audience, tasks, proc, nextTask, now, served, lastRun, resp,
          handler, store, call, tool, crew>>

\* the frame of a task identifier that no request has created yet
IdleFrame ==
  [kind |-> "none", pc |-> "idle", client_id |-> "", platform |-> "",
   src |-> "", results |-> <<>>, i |-> 0, stored_count |-> 0,
   unique_key |-> <<>>, err |-> "", chain |-> "", wake |-> 0]

\* a frame whose locals are dead: only its position (and what it failed
\* with, what the chain returned) is kept
DeadFrame(f, pc) ==
  [IdleFrame EXCEPT !.kind = f.kind, !.pc = pc, !.client_id = f.client_id,
                    !.err = f.err, !.chain = f.chain]

NoRun == [ran |-> FALSE, results |-> <<>>]

NoResponse == [task_id |-> 0, status |-> "no request"]

\* no request of /generate-messages is between its lookup and its return
NoHandler == [pc |-> "idle", client_id |-> ""]

\* A response of /task-status that has `details` holds the registry's own
\* dict (line 244 makes no copy), and the body is written out after the
\* handler has returned: until then `details` shows what the task's thread
\* writes to that dict.  The dict outlives its `del`; a generation task
\* puts a new dict in the registry (line 335), so the dict a response got
\* while that task was "pending" is written no more.
InFlight(r) == "details" \in DOMAIN r

\* no call of the retrieval tool is being made
NoCall ==
  [client_id |-> "", platform |-> "", nulls |-> {}, search_terms |-> <<>>, limit |-> 0]

IdleTool == [pc |-> "idle"]

\* no crew has been kicked off
NoCrew == [pc |-> "idle", started |-> <<>>, context |-> <<>>, output |-> <<>>]

Init ==
  /\ clients = [c \in {} |-> 0]
  /\ audience = EmptyBag
  /\ tasks = [t \in {} |-> 0]
  /\ proc = [t \in TaskIds |-> IdleFrame]
  /\ nextTask = 1
  /\ now = 0
  /\ served = 0
  /\ lastRun = [c \in ClientIds |-> NoRun]
  /\ resp = NoResponse
  /\ handler = NoHandler
  /\ store = <<>>
  /\ call = NoCall
  /\ tool = IdleTool
  /\ crew = NoCrew

(* ------------------------------ helpers ------------------------------- *)

\* tasks[task_id][k] = v
SetTask(t, upd) == [tasks EXCEPT ![t] = SetFields(tasks[t], upd)]

\* tasks[task_id] = d
PutTask(t, d) == [x \in DOMAIN tasks \cup {t} |-> IF x = t THEN d ELSE tasks[x]]

\* the response after a step that leaves the registry as newTasks: a body
\* without details has gone out; one in flight shows its dict as it is now
ResponseAfter(newTasks) ==
  IF ~InFlight(resp) THEN NoResponse
  ELSE IF /\ resp.task_id \in DOMAIN newTasks
          /\ ~(proc[resp.task_id].kind = "generate" /\ resp.status = "pending")
       THEN [resp EXCEPT !.details = newTasks[resp.task_id]]
       ELSE resp

\* mutant of FindOne: the filter names the wrong stored field
FindOneWrongField(c, platform, key) ==
  \E d \in BagToSet(audience) :
     d.client_id = c /\ d.platform = platform /\ <<d.publicIdentifier>> = key

\* audience_collection.find_one({"client_id":..., "platform":..., "unique_key":...})
FindOne(c, platform, key) ==
  \E d \in BagToSet(audience) :
     d.client_id = c /\ d.platform = platform /\ d.unique_key = key

\* the document insert_one stores: the raw record with the stamped fields
StoredDoc(r, c, platform, key) ==
  [client_id |-> c, platform |-> platform, unique_key |-> key,
   profileUrl |-> r.profileUrl, publicIdentifier |-> r.publicIdentifier]

\* clients_collection.update_one({"client_id": c}, {"$set": upd})
UpdateClient(c, upd) ==
  IF c \in DOMAIN clients
  THEN [clients EXCEPT ![c] = SetFields(clients[c], upd)]
  ELSE clients

\* "data_fetched" if stored_count else "data_fetch_attempted"
FetchStatus(stored_count) ==
  IF stored_count # 0 THEN "data_fetched" ELSE "data_fetch_attempted"

(* ------------------------------ register ------------------------------ *)

\* POST /register: a new document under a fresh uuid4, or HTTP 400.  The
\* uuid4 values are named in the order they are handed out: "c1", then "c2".
RegisterClient(c, p) ==
  /\ Cardinality(DOMAIN clients) < MaxClients
  /\ c \notin DOMAIN clients
  /\ c = "c2" => "c1" \in DOMAIN clients
  /\ clients' =
       IF Lower(p) \in SupportedPlatforms
       THEN [x \in DOMAIN clients \cup {c} |->
               IF x = c THEN [platform |-> Lower(p), status |-> "registered"]
               ELSE clients[x]]
       ELSE clients
  /\ UNCHANGED <<audience, tasks, proc, nextTask, now, served, lastRun, handler>>
  /\ resp' = ResponseAfter(tasks')
  /\ UNCHANGED toolVars

(* ------------------------ ingestion background task ------------------- *)

\* A coroutine is running on the event loop: the /generate-messages handler
\* between its lookup and its return, or a generation task between two
\* awaits (after line 335 up to the await of line 360, and from the
\* executor's answer to the end).
LoopBusy ==
  \/ handler.pc = "found"
  \/ \E t \in TaskIds :
        /\ proc[t].kind = "generate"
        /\ proc[t].pc \in {"lookup", "notfound", "save", "complete", "result",
                           "except", "except_result", "except_client"}

\* POST /fetch-audience/{client_id}: registers a pending task and queues
\* run_fetch_audience_task; the client id is not looked up here.  The
\* handler is a coroutine that does not await.
FetchAudience(c) ==
  /\ ~LoopBusy
  /\ nextTask <= MaxTasks
  /\ tasks' = PutTask(nextTask, [status |-> "pending", client_id |-> c])
  /\ proc' = [proc EXCEPT ![nextTask] =
                [IdleFrame EXCEPT !.kind = "fetch", !.pc = "start", !.client_id = c]]
  /\ nextTask' = nextTask + 1
  /\ UNCHANGED <<clients, audience, now, served, lastRun, handler>>
  /\ resp' = ResponseAfter(tasks')
  /\ UNCHANGED toolVars

\* line 163: the task's status is "running"
FetchBegin(t) ==
  /\ proc[t].kind = "fetch" /\ proc[t].pc = "start"
  /\ tasks' = SetTask(t, [status |-> "running"])
  /\ proc' = [proc EXCEPT ![t].pc = "find_client"]
  /\ UNCHANGED <<clients, audience, nextTask, now, served, lastRun, handler>>
  /\ resp' = ResponseAfter(tasks')
  /\ UNCHANGED toolVars

\* the run goes on to the profile source whether or not the client is there
FetchFindClientNoCheck(t) ==
  /\ proc[t].kind = "fetch" /\ proc[t].pc = "find_client"
  /\ proc' = [proc EXCEPT ![t] =
       [@ EXCEPT !.pc = "apify",
                 !.platform = IF proc[t].client_id \in DOMAIN clients
                              THEN clients[proc[t].client_id].platform
                              ELSE ""]]
  /\ UNCHANGED <<clients, audience, tasks, nextTask, now, served, lastRun, handler>>
  /\ resp' = ResponseAfter(tasks')
  /\ UNCHANGED toolVars

\* lines 164-168: the lookup of the client, as the store is at that moment
FetchFindClient(t) ==
  /\ proc[t].kind = "fetch" /\ proc[t].pc = "find_client"
  /\ proc' = [proc EXCEPT ![t] =
       IF proc[t].client_id \in DOMAIN clients
       THEN [@ EXCEPT !.pc = "apify",
                      !.platform = clients[proc[t].client_id].platform]
       ELSE [@ EXCEPT !.pc = "except", !.err = "Client not found"]]
  /\ UNCHANGED <<clients, audience, tasks, nextTask, now, served, lastRun, handler>>
  /\ resp' = ResponseAfter(tasks')
  /\ UNCHANGED toolVars

\* run_apify: [] for an unsupported platform, [] when the actor call raises
\* or returns no dataset, the dataset's items otherwise
RunApify(t) ==
  /\ proc[t].kind = "fetch" /\ proc[t].pc = "apify"
  /\ IF proc[t].platform \notin SupportedPlatforms
     THEN /\ proc' = [proc EXCEPT ![t] =
               [@ EXCEPT !.pc = "loop", !.src = "unsupported", !.results = <<>>]]
          /\ UNCHANGED served
     ELSE \E items \in Datasets(MaxItems - served), ok \in BOOLEAN :
            /\ ~ok => items = <<>>
            /\ proc' = [proc EXCEPT ![t] =
                 [@ EXCEPT !.pc = "loop", !.src = IF ok THEN "ok" ELSE "error",
                           !.results = items]]
            /\ served' = served + Len(items)
  /\ UNCHANGED <<clients, audience, tasks, nextTask, now, lastRun, handler>>
  /\ resp' = ResponseAfter(tasks')
  /\ UNCHANGED toolVars

\* lines 177-189 of one iteration: an empty record is skipped; any other
\* is stamped and gets its key, for which the clock is read
FetchKey(t) ==
  /\ proc[t].kind = "fetch" /\ proc[t].pc = "loop"
  /\ proc[t].i < Len(proc[t].results)
  /\ LET f == proc[t]
         r == f.results[f.i + 1]
     IN proc' = [proc EXCEPT ![t] =
          IF ~Truthy(r) THEN [@ EXCEPT !.i = f.i + 1]
          ELSE [@ EXCEPT !.pc = "find",
                         !.unique_key = UniqueKey(r, f.platform, f.i, now)]]
  /\ UNCHANGED <<clients, audience, tasks, nextTask, now, served, lastRun, handler>>
  /\ resp' = ResponseAfter(tasks')
  /\ UNCHANGED toolVars

\* lines 190-192: the key is looked up, in the store as it is at that moment
FetchLookup(t) ==
  /\ proc[t].kind = "fetch" /\ proc[t].pc = "find"
  /\ LET f == proc[t]
     IN proc' = [proc EXCEPT ![t] =
          IF FindOne(f.client_id, f.platform, f.unique_key)
          THEN [@ EXCEPT !.pc = "loop", !.i = f.i + 1, !.unique_key = <<>>]
          ELSE [@ EXCEPT !.pc = "insert"]]
  /\ UNCHANGED <<clients, audience, tasks, nextTask, now, served, lastRun, handler>>
  /\ resp' = ResponseAfter(tasks')
  /\ UNCHANGED toolVars

\* lines 193-194: insert_one and the tally
FetchInsert(t) ==
  /\ proc[t].kind = "fetch" /\ proc[t].pc = "insert"
  /\ LET f == proc[t]
         r == f.results[f.i + 1]
     IN /\ audience' = audience (+)
             SetToBag({StoredDoc(r, f.client_id, f.platform, f.unique_key)})
        /\ proc' = [proc EXCEPT ![t] =
             [@ EXCEPT !.pc = "loop", !.i = f.i + 1,
                       !.stored_count = f.stored_count + 1, !.unique_key = <<>>]]
  /\ UNCHANGED <<clients, tasks, nextTask, now, served, lastRun, handler>>
  /\ resp' = ResponseAfter(tasks')
  /\ UNCHANGED toolVars

\* lines 196-206: the client's status and last_fetch_count
FetchUpdateClient(t) ==
  /\ proc[t].kind = "fetch" /\ proc[t].pc = "loop"
  /\ proc[t].i = Len(proc[t].results)
  /\ clients' = UpdateClient(proc[t].client_id,
        [status |-> FetchStatus(proc[t].stored_count),
         last_fetch_count |-> proc[t].stored_count])
  /\ proc' = [proc EXCEPT ![t].pc = "complete"]
  /\ UNCHANGED <<audience, tasks, nextTask, now, served, lastRun, handler>>
  /\ resp' = ResponseAfter(tasks')
  /\ UNCHANGED toolVars

\* line 208
FetchSetCompleted(t) ==
  /\ proc[t].kind = "fetch" /\ proc[t].pc = "complete"
  /\ tasks' = SetTask(t, [status |-> "completed"])
  /\ proc' = [proc EXCEPT ![t].pc = "result"]
  /\ UNCHANGED <<clients, audience, nextTask, now, served, lastRun, handler>>
  /\ resp' = ResponseAfter(tasks')
  /\ UNCHANGED toolVars

\* line 209
FetchSetResult(t) ==
  /\ proc[t].kind = "fetch" /\ proc[t].pc = "result"
  /\ tasks' = SetTask(t, [result |->
        [stored_count |-> proc[t].stored_count, platform |-> proc[t].platform]])
  /\ proc' = [proc EXCEPT ![t].pc = "cleanup"]
  /\ UNCHANGED <<clients, audience, nextTask, now, served, lastRun, handler>>
  /\ resp' = ResponseAfter(tasks')
  /\ UNCHANGED toolVars

\* mutant of FetchStoreRaises: the statement after line 208 raises as well
FetchRaisesAfterCompleted(t) ==
  /\ proc[t].kind = "fetch"
  /\ proc[t].pc \in {"find", "insert", "loop", "result"}
  /\ proc' = [proc EXCEPT ![t] =
       DeadFrame([@ EXCEPT !.err = "store error"], "except")]
  /\ UNCHANGED <<clients, audience, tasks, nextTask, now, served, lastRun, handler>>
  /\ resp' = ResponseAfter(tasks')
  /\ UNCHANGED toolVars

\* a store call raises (pymongo error): the lookup of the client, a
\* find_one or an insert_one of the loop, the update of the client
FetchStoreRaises(t) ==
  /\ proc[t].kind = "fetch"
  /\ \/ proc[t].pc \in {"find_client", "find", "insert"}
     \/ proc[t].pc = "loop" /\ proc[t].i = Len(proc[t].results)
  /\ proc' = [proc EXCEPT ![t] =
       DeadFrame([@ EXCEPT !.err = "store error"], "except")]
  /\ UNCHANGED <<clients, audience, tasks, nextTask, now, served, lastRun, handler>>
  /\ resp' = ResponseAfter(tasks')
  /\ UNCHANGED toolVars

\* the except clause also writes the outcome to the client's document
FetchExceptUpdatesClient(t) ==
  /\ proc[t].kind = "fetch" /\ proc[t].pc = "except"
  /\ tasks' = SetTask(t, [status |-> FailedStatus(proc[t].err)])
  /\ clients' = UpdateClient(proc[t].client_id,
        [status |-> "data_fetch_attempted", last_fetch_count |-> 0])
  /\ proc' = [proc EXCEPT ![t].pc = "cleanup"]
  /\ UNCHANGED <<audience, nextTask, now, served, lastRun, handler>>
  /\ resp' = ResponseAfter(tasks')
  /\ UNCHANGED toolVars

\* lines 211-212: the except clause
FetchExcept(t) ==
  /\ proc[t].kind = "fetch" /\ proc[t].pc = "except"
  /\ tasks' = SetTask(t, [status |-> FailedStatus(proc[t].err)])
  /\ proc' = [proc EXCEPT ![t].pc = "cleanup"]
  /\ UNCHANGED <<clients, audience, nextTask, now, served, lastRun, handler>>
  /\ resp' = ResponseAfter(tasks')
  /\ UNCHANGED toolVars

\* lines 214-217: the finally clause goes to sleep for two seconds; the
\* locals of the run are dead from here on
FetchSleep(t) ==
  /\ proc[t].kind = "fetch" /\ proc[t].pc = "cleanup"
  /\ lastRun' =
       IF proc[t].err = "" /\ proc[t].src = "ok"
       THEN [lastRun EXCEPT ![proc[t].client_id] =
               [ran |-> TRUE, results |-> proc[t].results]]
       ELSE lastRun
  /\ proc' = [proc EXCEPT ![t] =
       [DeadFrame(@, "sleep") EXCEPT !.wake = now + SleepSecs]]
  /\ UNCHANGED <<clients, audience, tasks, nextTask, now, served, handler>>
  /\ resp' = ResponseAfter(tasks')
  /\ UNCHANGED toolVars

\* line 218: the sleep is over, the entry is deleted
FetchDelete(t) ==
  /\ proc[t].kind = "fetch" /\ proc[t].pc = "sleep"
  /\ now >= proc[t].wake
  /\ tasks' = DelKey(tasks, t)
  /\ proc' = [proc EXCEPT ![t] = DeadFrame(@, "done")]
  /\ UNCHANGED <<clients, audience, nextTask, now, served, lastRun, handler>>
  /\ resp' = ResponseAfter(tasks')
  /\ UNCHANGED toolVars

\* time passes: the clock moves while a run sleeps, and MaxTime ticks
\* more at any moment
Tick ==
  /\ \/ now < MaxTime
     \/ \E t \in TaskIds : proc[t].pc = "sleep" /\ now < proc[t].wake
  /\ now' = now + 1
  /\ UNCHANGED <<clients, audience, tasks, proc, nextTask, served, lastRun, handler>>
  /\ resp' = ResponseAfter(tasks')
  /\ UNCHANGED toolVars

(* ----------------------- generation background task ------------------- *)

\* POST /generate-messages/{client_id}, lines 421-423: the lookup of the
\* client, as the store is at that moment.  One request is between its
\* lookup and its return at a time (the handler is a coroutine that does
\* not await).  An unknown client is an HTTP 404 and a lookup that raises
\* an HTTP 500: neither leaves anything behind.
GenerateMessagesFind(c) ==
  /\ ~LoopBusy
  /\ nextTask <= MaxTasks
  /\ c \in DOMAIN clients
  /\ handler' = [pc |-> "found", client_id |-> c]
  /\ UNCHANGED <<clients, audience, tasks, proc, nextTask, now, served, lastRun>>
  /\ resp' = ResponseAfter(tasks')
  /\ UNCHANGED toolVars

\* lines 425-435: a pending task under a fresh uuid4 and
\* generate_message_task_async queued, for the client found at line 421
GenerateMessages(c) ==
  /\ handler.pc = "found" /\ handler.client_id = c
  /\ tasks' = PutTask(nextTask, [status |-> "pending", client_id |-> c])
  /\ proc' = [proc EXCEPT ![nextTask] =
                [IdleFrame EXCEPT !.kind = "generate", !.pc = "start", !.client_id = c]]
  /\ nextTask' = nextTask + 1
  /\ handler' = NoHandler
  /\ UNCHANGED <<clients, audience, now, served, lastRun>>
  /\ resp' = ResponseAfter(tasks')
  /\ UNCHANGED toolVars

\* lines 335-339: the event loop starts the task; the entry is written
\* anew, as "running"
GenBegin(t) ==
  /\ ~LoopBusy
  /\ proc[t].kind = "generate" /\ proc[t].pc = "start"
  /\ tasks' = PutTask(t, [status |-> "running", client_id |-> proc[t].client_id])
  /\ proc' = [proc EXCEPT ![t].pc = "lookup"]
  /\ UNCHANGED <<clients, audience, nextTask, now, served, lastRun, handler>>
  /\ resp' = ResponseAfter(tasks')
  /\ UNCHANGED toolVars

\* lines 343-351.  At "lookup" the find_one of line 343 answers, as the
\* store is at that moment, or raises (it is inside the try of line 341);
\* at "notfound" line 349 writes the registry from the None read before.
\* No document is ever deleted, so after the endpoint's own lookup of line
\* 421 the task's lookup finds the client.
GenLookup(t) ==
  /\ proc[t].kind = "generate" /\ proc[t].pc \in {"lookup", "notfound"}
  /\ IF proc[t].pc = "notfound"
     THEN /\ tasks' = SetTask(t, [status |-> "failed: client not found"])
          /\ proc' = [proc EXCEPT ![t].pc = "done"]
     ELSE /\ \E storeRaises \in BOOLEAN :
               proc' = [proc EXCEPT ![t] =
                 IF storeRaises
                 THEN [@ EXCEPT !.pc = "except", !.err = "store error"]
                 ELSE IF proc[t].client_id \in DOMAIN clients
                 THEN [@ EXCEPT !.pc = "chain",
                                !.platform = clients[proc[t].client_id].platform]
                 ELSE [@ EXCEPT !.pc = "notfound"]]
          /\ UNCHANGED tasks
  /\ UNCHANGED <<clients, audience, nextTask, now, served, lastRun, handler>>
  /\ resp' = ResponseAfter(tasks')
  /\ UNCHANGED toolVars

\* What kickoff_message_generation hands back (pipeline_utils.py 585-701):
\* the crew's output, or, when crew.kickoff raises, the dict of the except
\* clause, which is returned, not raised.
KickoffResult(crewRaises) == IF crewRaises THEN "error_dict" ELSE "crew_output"

\* serialize_crew_output: a dict has no .raw, so its str() is the message
SerializeCrewOutput(out) ==
  IF out = "crew_output" THEN "raw_message" ELSE "raw_message_of_error_dict"

\* lines 359-365: the chain runs in the executor and returns, or the call
\* raises before the crew starts (building the tasks, json.dumps); the
\* event loop resumes the task with the outcome
GenKickoff(t) ==
  /\ ~LoopBusy
  /\ proc[t].kind = "generate" /\ proc[t].pc = "chain"
  /\ \E outcome \in {"ok", "crew_raises", "raises"} :
       proc' = [proc EXCEPT ![t] =
         IF outcome = "raises"
         THEN [@ EXCEPT !.pc = "except", !.err = "kickoff error"]
         ELSE [@ EXCEPT !.pc = "save",
                        !.chain = KickoffResult(outcome = "crew_raises")]]
  /\ UNCHANGED <<clients, audience, tasks, nextTask, now, served, lastRun, handler>>
  /\ resp' = ResponseAfter(tasks')
  /\ UNCHANGED toolVars

\* lines 370-384: the serialized output is saved on the client document
GenSave(t) ==
  /\ proc[t].kind = "generate" /\ proc[t].pc = "save"
  /\ \E storeRaises \in BOOLEAN :
       IF storeRaises
       THEN /\ proc' = [proc EXCEPT ![t] =
                 [@ EXCEPT !.pc = "except", !.err = "store error"]]
            /\ UNCHANGED clients
       ELSE /\ clients' = UpdateClient(proc[t].client_id,
                 [generated_messages |-> SerializeCrewOutput(proc[t].chain),
                  current_status |-> "message_generated"])
            /\ proc' = [proc EXCEPT ![t].pc = "complete"]
  /\ UNCHANGED <<audience, tasks, nextTask, now, served, lastRun, handler>>
  /\ resp' = ResponseAfter(tasks')
  /\ UNCHANGED toolVars

\* line 392
GenSetCompleted(t) ==
  /\ proc[t].kind = "generate" /\ proc[t].pc = "complete"
  /\ tasks' = SetTask(t, [status |-> "completed"])
  /\ proc' = [proc EXCEPT ![t].pc = "result"]
  /\ UNCHANGED <<clients, audience, nextTask, now, served, lastRun, handler>>
  /\ resp' = ResponseAfter(tasks')
  /\ UNCHANGED toolVars

\* line 393: the last statement of the task; the entry is never deleted
GenSetResult(t) ==
  /\ proc[t].kind = "generate" /\ proc[t].pc = "result"
  /\ tasks' = SetTask(t, [result |-> [message |-> SerializeCrewOutput(proc[t].chain)]])
  /\ proc' = [proc EXCEPT ![t].pc = "done"]
  /\ UNCHANGED <<clients, audience, nextTask, now, served, lastRun, handler>>
  /\ resp' = ResponseAfter(tasks')
  /\ UNCHANGED toolVars

\* line 397
GenExcept(t) ==
  /\ proc[t].kind = "generate" /\ proc[t].pc = "except"
  /\ tasks' = SetTask(t, [status |-> FailedStatus(proc[t].err)])
  /\ proc' = [proc EXCEPT ![t].pc = "except_result"]
  /\ UNCHANGED <<clients, audience, nextTask, now, served, lastRun, handler>>
  /\ resp' = ResponseAfter(tasks')
  /\ UNCHANGED toolVars

\* line 398
GenExceptResult(t) ==
  /\ proc[t].kind = "generate" /\ proc[t].pc = "except_result"
  /\ tasks' = SetTask(t, [result |-> [error |-> proc[t].err]])
  /\ proc' = [proc EXCEPT ![t].pc = "except_client"]
  /\ UNCHANGED <<clients, audience, nextTask, now, served, lastRun, handler>>
  /\ resp' = ResponseAfter(tasks')
  /\ UNCHANGED toolVars

\* lines 402-414: the failure is noted on the client; an error of this
\* update is swallowed
GenExceptClient(t) ==
  /\ proc[t].kind = "generate" /\ proc[t].pc = "except_client"
  /\ \E storeRaises \in BOOLEAN :
       clients' = IF storeRaises THEN clients
                  ELSE UpdateClient(proc[t].client_id,
                         [current_status |-> "message_generation_failed",
                          last_error |-> proc[t].err])
  /\ proc' = [proc EXCEPT ![t].pc = "done"]
  /\ UNCHANGED <<audience, tasks, nextTask, now, served, lastRun, handler>>
  /\ resp' = ResponseAfter(tasks')
  /\ UNCHANGED toolVars

(* ---------------------------- status query ---------------------------- *)

\* mutant of TaskStatusResponse: tasks[task_id] instead of tasks.get(task_id),
\* a KeyError for an unknown identifier
TaskStatusResponseIndexed(task_id) ==
  IF task_id \notin DOMAIN tasks
  THEN [task_id |-> task_id, status |-> "KeyError"]
  ELSE [task_id |-> task_id, status |-> tasks[task_id].status,
        details |-> tasks[task_id]]

\* GET /task-status/{task_id}: the body returned
TaskStatusResponse(task_id) ==
  IF task_id \notin DOMAIN tasks
  THEN [task_id |-> task_id, status |-> "not found or completed (cleaned up)"]
  ELSE [task_id |-> task_id, status |-> tasks[task_id].status,
        details |-> tasks[task_id]]

\* the handler returns; one response is followed at a time
GetTaskStatus(task_id) ==
  /\ ~InFlight(resp)
  /\ resp' = TaskStatusResponse(task_id)
  /\ UNCHANGED <<clients, audience, tasks, proc, nextTask, now, served, lastRun, handler>>
  /\ UNCHANGED toolVars

\* the body of the response in flight is written out
SendResponse ==
  /\ InFlight(resp)
  /\ resp' = NoResponse
  /\ UNCHANGED <<clients, audience, tasks, proc, nextTask, now, served, lastRun, handler>>
  /\ UNCHANGED toolVars

(* ---------------------------- specification --------------------------- *)

Next ==
  \/ \E c \in ClientIds, p \in RegisterPlatforms : RegisterClient(c, p)
  \/ \E c \in ClientIds : FetchAudience(c)
  \/ \E c \in ClientIds : GenerateMessagesFind(c)
  \/ \E c \in ClientIds : GenerateMessages(c)
  \/ \E t \in TaskIds :
       \/ FetchBegin(t)
       \/ FetchFindClient(t)
       \/ RunApify(t)
       \/ FetchKey(t)
       \/ FetchLookup(t)
       \/ FetchInsert(t)
       \/ FetchUpdateClient(t)
       \/ FetchSetCompleted(t)
       \/ FetchSetResult(t)
       \/ FetchStoreRaises(t)
       \/ FetchExcept(t)
       \/ FetchSleep(t)
       \/ FetchDelete(t)
       \/ GenBegin(t)
       \/ GenLookup(t)
       \/ GenKickoff(t)
       \/ GenSave(t)
       \/ GenSetCompleted(t)
       \/ GenSetResult(t)
       \/ GenExcept(t)
       \/ GenExceptResult(t)
       \/ GenExceptClient(t)
  \/ \E id \in TaskIds : GetTaskStatus(id)
  \/ SendResponse
  \/ Tick

Spec == Init /\ [][Next]_vars

(* --------------------- non-overlapping ingestion runs ----------------- *)

\* no ingestion run is between its first and its last statement
NoRunInFlight ==
  \A u \in TaskIds : proc[u].kind = "fetch" => proc[u].pc \in {"start", "done"}

\* run_fetch_audience_task entered while no other run is in flight
SeqFetchBegin(t) == NoRunInFlight /\ FetchBegin(t)

NextSeq ==
  \/ \E c \in ClientIds, p \in RegisterPlatforms : RegisterClient(c, p)
  \/ \E c \in ClientIds : FetchAudience(c)
  \/ \E t \in TaskIds :
       \/ SeqFetchBegin(t)
       \/ FetchFindClient(t)
       \/ RunApify(t)
       \/ FetchKey(t)
       \/ FetchLookup(t)
       \/ FetchInsert(t)
       \/ FetchUpdateClient(t)
       \/ FetchSetCompleted(t)
       \/ FetchSetResult(t)
       \/ FetchStoreRaises(t)
       \/ FetchExcept(t)
       \/ FetchSleep(t)
       \/ FetchDelete(t)
  \/ \E id \in TaskIds : GetTaskStatus(id)
  \/ SendResponse
  \/ Tick

SpecSeq == Init /\ [][NextSeq]_vars

(* ------------------- retrieval tool: strings and dicts ---------------- *)

\* A Python str is the sequence of its characters, so that `in`, lower()
\* and strip() are computed and not assumed.

\* str.lower(), on the letters the model's strings use
LowerChar(ch) ==
  CASE ch = "A" -> "a"
    [] ch = "B" -> "b"
    [] ch = "L" -> "l"
    [] ch = "I" -> "i"
    [] ch = "U" -> "u"
    [] OTHER -> ch

LowerStr(str) == [k \in 1..Len(str) |-> LowerChar(str[k])]

\* str.strip(): leading and trailing whitespace removed (of the whitespace
\* characters, the strings of the model hold " ", "\t", "\n" and "\r")
RECURSIVE StripLeft(_)
StripLeft(str) ==
  IF str # <<>> /\ Head(str) \in {" ", "\t", "\n", "\r"} THEN StripLeft(Tail(str)) ELSE str

RECURSIVE StripRight(_)
StripRight(str) ==
  IF str # <<>> /\ str[Len(str)] \in {" ", "\t", "\n", "\r"}
  THEN StripRight(SubSeq(str, 1, Len(str) - 1))
  ELSE str

Strip(str) == StripRight(StripLeft(str))

\* `sub in str` for two strings
Contains(sub, str) ==
  \E k \in 0..(Len(str) - Len(sub)) : SubSeq(str, k + 1, k + Len(sub)) = sub

\* lst[:n]
Prefix(lst, n) ==
  SubSeq(lst, 1, IF n >= Len(lst) THEN Len(lst)
                 ELSE IF n >= 0 THEN n
                 ELSE IF Len(lst) + n > 0 THEN Len(lst) + n ELSE 0)

\* A document (a dict) is a record whose fields are the keys that hold a
\* value; the field `nulls` names the keys that are present and hold None.
HasKey(d, k) == k \in DOMAIN d
IsNone(d, k) == k \in d.nulls

\* The keys that hold a non-empty str where the code expects a number (a
\* like count stored as "1K") are not among the record's fields either:
\* the optional field `texts` maps each of them to its str.
IsText(d, k) == "texts" \in DOMAIN d /\ k \in DOMAIN d.texts
\* bool(d.get(k)) for a key that holds a str where a number is expected
TruthyText(d, k) == IsText(d, k) /\ d.texts[k] # <<>>

\* int(str): whitespace around the number is dropped, a sign may lead, and
\* the digits may be grouped by single underscores; anything else is a
\* ValueError ("1K", "4.0", "")
Digits == <<"0", "1", "2", "3", "4", "5", "6", "7", "8", "9">>

\* the str without the whitespace around it and without its sign
IntBody(str) ==
  LET s == Strip(str)
  IN IF s # <<>> /\ s[1] \in {"+", "-"} THEN Tail(s) ELSE s

IsIntText(str) ==
  LET body == IntBody(str)
      IsDigit(ch) == \E d \in 1..Len(Digits) : Digits[d] = ch
  IN /\ body # <<>>
     /\ IsDigit(body[1])
     /\ IsDigit(body[Len(body)])
     /\ \A k \in 1..Len(body) :
           \/ IsDigit(body[k])
           \/ body[k] = "_" /\ k < Len(body) /\ body[k + 1] # "_"

RECURSIVE DigitsValue(_)
DigitsValue(body) ==
  IF body = <<>> THEN 0
  ELSE LET init == SubSeq(body, 1, Len(body) - 1)
           last == body[Len(body)]
       IN IF last = "_" THEN DigitsValue(init)
          ELSE 10 * DigitsValue(init)
                 + (CHOOSE d \in 1..Len(Digits) : Digits[d] = last) - 1

IntOfText(str) ==
  LET s == Strip(str)
  IN IF s[1] = "-" THEN 0 - DigitsValue(IntBody(str)) ELSE DigitsValue(IntBody(str))

\* int(a / b) for b > 0: the quotient cut off towards zero
TruncDiv(a, b) == IF a >= 0 THEN a \div b ELSE 0 - ((0 - a) \div b)

\* d.get(k, default), for a key that does not hold None
GetDefault(d, k, default) == IF HasKey(d, k) THEN d[k] ELSE default

\* d.get(k) or default, for a str or a list: None, "" and [] are falsy
GetSeqOr(d, k, default) ==
  IF HasKey(d, k) /\ d[k] # <<>> THEN d[k] ELSE default

\* d.get(k) or default, for a number: None and 0 are falsy
GetNumOr(d, k, default) ==
  IF HasKey(d, k) /\ d[k] # 0 THEN d[k] ELSE default

\* {**d, k: v}: the key holds v, whatever it held before
WithKey(d, k, v) ==
  LET texts == IF "texts" \in DOMAIN d
               THEN [x \in DOMAIN d.texts \ {k} |-> d.texts[x]]
               ELSE <<>>
      keys == (DOMAIN d \cup {k}) \ (IF DOMAIN texts = {} THEN {"texts"} ELSE {})
  IN [x \in keys |->
        CASE x = k -> v
          [] x = "nulls" -> d.nulls \ {k}
          [] x = "texts" -> texts
          [] OTHER -> d[x]]

\* A dict the code builds, encoded as the documents are: rec gives the
\* keys and their values, nulls the keys that hold None instead, texts the
\* str of the keys that hold a str where a number is expected.
OutDict(rec, nulls, texts) ==
  LET keys == (DOMAIN rec \ (nulls \cup DOMAIN texts)) \cup {"nulls"}
                \cup (IF DOMAIN texts = {} THEN {} ELSE {"texts"})
  IN [k \in keys |->
        CASE k = "nulls" -> nulls
          [] k = "texts" -> texts
          [] OTHER -> rec[k]]

\* the out keys whose source key holds a str for a number, with that str;
\* pairs is a set of <<out key, source key>>
PassTexts(raw, pairs) ==
  LET hit == {q \in pairs : IsText(raw, q[2])}
  IN [k \in {q[1] : q \in hit} |->
        raw.texts[(CHOOSE q \in hit : q[1] = k)[2]]]

\* the out keys whose source key holds None
PassNulls(raw, pairs) == {q[1] : q \in {x \in pairs : IsNone(raw, x[2])}}

(* ------------------- retrieval tool: validity filter ------------------ *)

\* bool(v) of a value that is a dict
TruthyDict(d) == DOMAIN d # {"nulls"} \/ d.nulls # {}

\* bool(d.get(k)) for a str or a list
TruthySeqAt(d, k) == HasKey(d, k) /\ d[k] # <<>>

\* (profile.get("about_me") or {}).get("text", "") taken as a condition
AboutMeTruthy(profile) ==
  /\ HasKey(profile, "about_me")
  /\ TruthyDict(profile.about_me)
  /\ TruthySeqAt(profile.about_me, "text")

\* lines 129-139
FacebookValid(profile) ==
  \/ TruthySeqAt(profile, "categories")
  \/ TruthySeqAt(profile, "info")
  \/ AboutMeTruthy(profile)
  \/ GetNumOr(profile, "likes", 0) > 0
  \/ GetNumOr(profile, "followers", 0) > 0

\* line 137: the `or` chain comes to likes > 0 (then followers > 0) only
\* when everything before is falsy; a str compared with 0 raises
FacebookValidateRaises(profile) ==
  /\ ~TruthySeqAt(profile, "categories")
  /\ ~TruthySeqAt(profile, "info")
  /\ ~AboutMeTruthy(profile)
  /\ \/ TruthyText(profile, "likes")
     \/ /\ ~(GetNumOr(profile, "likes", 0) > 0)
        /\ TruthyText(profile, "followers")

\* lines 141-148
InstagramValid(profile) ==
  \/ Strip(GetSeqOr(profile, "caption", <<>>)) # <<>>
  \/ TruthySeqAt(profile, "hashtags")
  \/ TruthySeqAt(profile, "ownerId")

\* profile.get(k), kept in a new dict: the key is there, with None when
\* the profile has no value for it
CopiedKeys == {"publicIdentifier", "linkedinUrl", "photo"}

\* lines 152-164: profile_cleaned
LinkedinCleaned(profile) ==
  LET valued == {k \in CopiedKeys : HasKey(profile, k)}
      keys == {"firstName", "lastName", "fullName", "headline", "summary",
               "about", "experience", "location", "nulls"} \cup valued
  IN [k \in keys |->
        CASE k = "fullName" ->
               Strip(GetSeqOr(profile, "fullName", GetSeqOr(profile, "name", <<>>)))
          [] k \in {"firstName", "lastName", "headline", "summary", "about"} ->
               Strip(GetSeqOr(profile, k, <<>>))
          [] k = "experience" -> GetSeqOr(profile, "experience", <<>>)
          [] k = "location" ->
               IF HasKey(profile, "location") /\ TruthyDict(profile.location)
               THEN profile.location ELSE [nulls |-> {}]
          [] k = "nulls" -> CopiedKeys \ valued
          [] OTHER -> profile[k]]

\* line 167: fullName or f"{firstName} {lastName}".strip()
LinkedinName(cleaned) ==
  IF cleaned.fullName # <<>> THEN cleaned.fullName
  ELSE Strip(cleaned.firstName \o <<" ">> \o cleaned.lastName)

\* the placeholder name compared letter for letter, without lower-casing
LinkedinValidExactCase(cleaned) ==
  /\ LinkedinName(cleaned) # <<>>
  /\ LinkedinName(cleaned) # <<"l","i","n","k","e","d","i","n"," ","u","s","e","r">>
  /\ \/ cleaned.headline # <<>>
     \/ cleaned.summary # <<>>
     \/ cleaned.about # <<>>
     \/ cleaned.experience # <<>>

\* line 174
LinkedinValid(cleaned) ==
  /\ LinkedinName(cleaned) # <<>>
  /\ LowerStr(LinkedinName(cleaned)) # <<"l","i","n","k","e","d","i","n"," ","u","s","e","r">>
  /\ \/ cleaned.headline # <<>>
     \/ cleaned.summary # <<>>
     \/ cleaned.about # <<>>
     \/ cleaned.experience # <<>>

\* lines 178-182: any other platform
GenericValid(profile) ==
  \/ TruthySeqAt(profile, "username")
  \/ TruthySeqAt(profile, "bio")
  \/ TruthySeqAt(profile, "caption")

\* _validate_platform_data raises: some record makes its test raise
ValidateRaises(profiles, platform) ==
  /\ platform = "facebook"
  /\ \E k \in 1..Len(profiles) : FacebookValidateRaises(profiles[k])

\* _validate_platform_data: the profiles that have content, in their
\* order; a LinkedIn profile is replaced by its cleaned version
RECURSIVE ValidatePlatformData(_, _)
ValidatePlatformData(profiles, platform) ==
  IF profiles = <<>> THEN <<>>
  ELSE LET profile == Head(profiles)
           rest == ValidatePlatformData(Tail(profiles), platform)
       IN CASE platform = "facebook" ->
                 IF FacebookValid(profile) THEN <<profile>> \o rest ELSE rest
            [] platform = "instagram" ->
                 IF InstagramValid(profile) THEN <<profile>> \o rest ELSE rest
            [] platform = "linkedin" ->
                 IF LinkedinValid(LinkedinCleaned(profile))
                 THEN <<LinkedinCleaned(profile)>> \o rest ELSE rest
            [] OTHER ->
                 IF GenericValid(profile) THEN <<profile>> \o rest ELSE rest

(* ------------------- retrieval tool: relevance scorer ----------------- *)

\* " ".join(lst) for a list of strings
RECURSIVE JoinSpace(_)
JoinSpace(lst) ==
  IF lst = <<>> THEN <<>>
  ELSE IF Len(lst) = 1 THEN lst[1]
  ELSE lst[1] \o <<" ">> \o JoinSpace(Tail(lst))

\* [term.lower() for term in search_terms]
LowerAll(lst) == [k \in 1..Len(lst) |-> LowerStr(lst[k])]

\* the number of positions of the term list whose term is in the text
TermsIn(terms, text) ==
  Cardinality({k \in 1..Len(terms) : Contains(terms[k], text)})

\* profile.get("about_me", {}).get("text", "")
AboutMeText(profile) ==
  IF HasKey(profile, "about_me")
  THEN GetDefault(profile.about_me, "text", <<>>)
  ELSE <<>>

\* lines 200-219: a None under a key read with .get(key, default) makes
\* .lower(), the iteration or the division raise; so does a str under
\* likes or followers (str / int, lines 216-217) and a ratingOverall that
\* is a str int() does not read (line 219)
FacebookScoreRaises(profile) ==
  \/ IsText(profile, "likes")
  \/ IsText(profile, "followers")
  \/ /\ TruthyText(profile, "ratingOverall")
     /\ ~IsIntText(profile.texts["ratingOverall"])
  \/ IsNone(profile, "categories")
  \/ IsNone(profile, "info")
  \/ IsNone(profile, "title")
  \/ IsNone(profile, "about_me")
  \/ HasKey(profile, "about_me") /\ IsNone(profile.about_me, "text")
  \/ IsNone(profile, "likes")
  \/ IsNone(profile, "followers")

\* lines 199-219
FacebookScore(profile, terms) ==
  LET categories == LowerAll(GetDefault(profile, "categories", <<>>))
      info_text == LowerStr(JoinSpace(GetDefault(profile, "info", <<>>)))
      title == LowerStr(GetDefault(profile, "title", <<>>))
      about_me == LowerStr(AboutMeText(profile))
  IN 4 * Cardinality({k \in 1..Len(terms) :
                        \E c \in 1..Len(categories) : Contains(terms[k], categories[c])})
     + 3 * TermsIn(terms, info_text)
     + 2 * TermsIn(terms, title)
     + 3 * TermsIn(terms, about_me)
     + TruncDiv(GetDefault(profile, "likes", 0), 100)
     + TruncDiv(GetDefault(profile, "followers", 0), 100)
     + (IF TruthyText(profile, "ratingOverall")
        THEN IntOfText(profile.texts["ratingOverall"])
        ELSE GetNumOr(profile, "ratingOverall", 0))

\* lines 223-243: None.lower(), the iteration of None, None or a str
\* compared with a number
InstagramScoreRaises(profile) ==
  \/ IsNone(profile, "caption")
  \/ IsNone(profile, "hashtags")
  \/ IsNone(profile, "likesCount") \/ IsText(profile, "likesCount")
  \/ IsNone(profile, "commentsCount") \/ IsText(profile, "commentsCount")

\* lines 221-243: +3 for every pair of a hashtag and a term of which one
\* contains the other
InstagramScore(profile, terms) ==
  LET caption == LowerStr(GetDefault(profile, "caption", <<>>))
      hashtags == LowerAll(GetDefault(profile, "hashtags", <<>>))
  IN 3 * Cardinality({pair \in (1..Len(hashtags)) \X (1..Len(terms)) :
                        \/ Contains(terms[pair[2]], hashtags[pair[1]])
                        \/ Contains(hashtags[pair[1]], terms[pair[2]])})
     + 2 * TermsIn(terms, caption)
     + (IF GetDefault(profile, "likesCount", 0) > 10 THEN 1 ELSE 0)
     + (IF GetDefault(profile, "commentsCount", 0) > 2 THEN 1 ELSE 0)

\* lines 247-271
LinkedinScoreRaises(profile) ==
  \/ IsNone(profile, "headline")
  \/ IsNone(profile, "summary")
  \/ IsNone(profile, "industry")
  \/ IsNone(profile, "experience")
  \/ IsNone(profile, "connectionsCount") \/ IsText(profile, "connectionsCount")

\* lines 245-271: an experience entry is the string str(exp) gives; +2 for
\* every pair of one of the first three entries and a term it contains
LinkedinScore(profile, terms) ==
  LET headline == LowerStr(GetDefault(profile, "headline", <<>>))
      summary == LowerStr(GetDefault(profile, "summary", <<>>))
      industry == LowerStr(GetDefault(profile, "industry", <<>>))
      experience == LowerAll(Prefix(GetDefault(profile, "experience", <<>>), 3))
  IN 4 * TermsIn(terms, headline)
     + 3 * TermsIn(terms, summary)
     + 2 * TermsIn(terms, industry)
     + 2 * Cardinality({pair \in (1..Len(experience)) \X (1..Len(terms)) :
                          Contains(terms[pair[2]], experience[pair[1]])})
     + (IF GetDefault(profile, "connectionsCount", 0) > 500 THEN 1 ELSE 0)

ScoreRaises(profile, platform) ==
  CASE platform = "facebook" -> FacebookScoreRaises(profile)
    [] platform = "instagram" -> InstagramScoreRaises(profile)
    [] platform = "linkedin" -> LinkedinScoreRaises(profile)
    [] OTHER -> FALSE

\* lines 196-271: the score of one profile (0 for any other platform)
ScoreOf(profile, terms, platform) ==
  CASE platform = "facebook" -> FacebookScore(profile, terms)
    [] platform = "instagram" -> InstagramScore(profile, terms)
    [] platform = "linkedin" -> LinkedinScore(profile, terms)
    [] OTHER -> 0

\* mutant of InsertByScore: the new element goes before its equals
InsertBeforeEquals(sorted, x) ==
  LET n == Cardinality({k \in 1..Len(sorted) :
                          sorted[k].relevance_score > x.relevance_score})
  IN SubSeq(sorted, 1, n) \o <<x>> \o SubSeq(sorted, n + 1, Len(sorted))

\* one element more in a list kept in descending order of score: it goes
\* behind every element whose score is at least its own
InsertByScore(sorted, x) ==
  LET n == Cardinality({k \in 1..Len(sorted) :
                          sorted[k].relevance_score >= x.relevance_score})
  IN SubSeq(sorted, 1, n) \o <<x>> \o SubSeq(sorted, n + 1, Len(sorted))

\* line 276: list.sort(key=relevance_score, reverse=True); Python's sort is
\* stable, with reverse=True as well
RECURSIVE SortByScore(_)
SortByScore(lst) ==
  IF lst = <<>> THEN <<>>
  ELSE InsertByScore(SortByScore(SubSeq(lst, 1, Len(lst) - 1)), lst[Len(lst)])

\* _score_profiles_by_relevance: what it returns, or that it raised
ScoreProfilesByRelevance(profiles, search_terms, platform) ==
  IF search_terms = <<>> THEN [raised |-> FALSE, value |-> profiles]
  ELSE IF \E k \in 1..Len(profiles) : ScoreRaises(profiles[k], platform)
  THEN [raised |-> TRUE, value |-> <<>>]
  ELSE [raised |-> FALSE,
        value |-> SortByScore(
          [k \in 1..Len(profiles) |->
             WithKey(profiles[k], "relevance_score",
                     ScoreOf(profiles[k], LowerAll(search_terms), platform))])]

(* ------------------- retrieval tool: standardizers -------------------- *)

\* A URL is the sequence of its parts: a host part ("instagram.com/"), the
\* separators "/" and "?", and the segments between them.
UrlHosts == <<"facebook.com/", "instagram.com/", "linkedin.com/in/">>

\* re.search(host + "([^/?]+)", url): the places where the host part is
\* followed by a segment
HostMatches(url, host) ==
  {k \in 1..(Len(url) - 1) : url[k] = host /\ url[k + 1] \notin {"/", "?"}}

\* _extract_username_from_url, for a url that is a str (or None, given as
\* the empty url): the segment after the first pattern that matches
ExtractUsernameFromUrl(url) ==
  IF url = <<>> THEN <<"unknown_user">>
  ELSE LET hits == {h \in 1..Len(UrlHosts) : HostMatches(url, UrlHosts[h]) # {}}
       IN IF hits = {} THEN <<"social_user">>
          ELSE LET h == CHOOSE x \in hits : \A y \in hits : x <= y
                   k == CHOOSE x \in HostMatches(url, UrlHosts[h]) :
                          \A y \in HostMatches(url, UrlHosts[h]) : x <= y
               IN <<url[k + 1]>>

\* str.split("\n")
RECURSIVE SplitLines(_)
SplitLines(str) ==
  LET breaks == {k \in 1..Len(str) : str[k] = "\n"}
  IN IF breaks = {} THEN <<str>>
     ELSE LET k == CHOOSE x \in breaks : \A y \in breaks : x <= y
          IN <<SubSeq(str, 1, k - 1)>> \o SplitLines(SubSeq(str, k + 1, Len(str)))

\* lines 444-455: the stripped lines that are neither empty nor mostly
\* hashtags; the loop stops at the second one
BioLines(caption) ==
  LET lines == SplitLines(caption)
  IN Prefix(SelectSeq([k \in 1..Len(lines) |-> Strip(lines[k])],
                      LAMBDA line : /\ line # <<>>
                                    /\ line[1] # "#"
                                    /\ Cardinality({c \in 1..Len(line) : line[c] = "#"}) <= 2),
            2)

\* _extract_bio_from_caption
ExtractBioFromCaption(caption) ==
  IF caption = <<>> THEN <<"Instagram content creator">>
  ELSE LET joined == JoinSpace(BioLines(caption))
           bio == IF Len(joined) > 100 THEN SubSeq(joined, 1, 97) \o <<".", ".", ".">>
                  ELSE joined
       IN IF bio = <<>> THEN <<"Creative Instagram content creator">> ELSE bio

\* what a standardizer returns from its except clause
StdNone == [none |-> TRUE]

\* lines 389-428: an exception inside the try (None or a str in the
\* engagement arithmetic, None[:10], len(None))
InstagramStandardizeRaises(raw) ==
  \/ IsNone(raw, "likesCount") \/ IsText(raw, "likesCount")
  \/ IsNone(raw, "commentsCount") \/ IsText(raw, "commentsCount")
  \/ IsNone(raw, "hashtags")
  \/ IsNone(raw, "caption")

\* _standardize_instagram_profile (content_type and post_date, copies that
\* nothing reads, are left out; engagement_score is kept in hundredths).
\* A key read with .get(key, default) that holds None gives None.
StandardizeInstagramProfile(raw) ==
  IF InstagramStandardizeRaises(raw) THEN StdNone
  ELSE
    LET extracted == ExtractUsernameFromUrl(GetDefault(raw, "url", <<>>))
        username == IF extracted = <<"instagram_user">>
                    THEN <<"user_">> \o (IF IsNone(raw, "ownerId")
                                         THEN <<"N", "o", "n", "e">>
                                         ELSE GetDefault(raw, "ownerId", <<"unknown">>))
                    ELSE extracted
        caption == GetDefault(raw, "caption", <<>>)
        likes == GetDefault(raw, "likesCount", 0)
        comments == GetDefault(raw, "commentsCount", 0)
        passed == {<<"owner_id", "ownerId">>, <<"relevance_score", "relevance_score">>}
    IN OutDict(
         [username |-> username,
          bio |-> ExtractBioFromCaption(caption),
          hashtags |-> Prefix(GetDefault(raw, "hashtags", <<>>), 10),
          platform |-> "instagram",
          has_valid_content |->
            (caption # <<>> \/ TruthySeqAt(raw, "hashtags") \/ TruthySeqAt(raw, "ownerId")),
          recent_posts |->
            <<OutDict([caption |-> IF Len(caption) > 150
                                   THEN SubSeq(caption, 1, 150) \o <<".", ".", ".">>
                                   ELSE caption,
                       likes |-> likes, comments |-> comments,
                       url |-> GetDefault(raw, "url", <<>>)],
                      PassNulls(raw, {<<"url", "url">>}), <<>>)>>,
          profile_url |-> <<"https://www.instagram.com/">> \o username \o <<"/">>,
          post_engagement |->
            OutDict([likes |-> likes, comments |-> comments,
                     engagement_score |-> likes + comments * 5], {}, <<>>),
          relevance_score |-> GetDefault(raw, "relevance_score", 0),
          owner_id |-> GetDefault(raw, "ownerId", <<>>)],
         PassNulls(raw, passed), PassTexts(raw, passed))

\* lines 476-497: an exception inside the try
LinkedinStandardizeRaises(raw) ==
  \/ IsNone(raw, "firstName")
  \/ IsNone(raw, "lastName")
  \/ IsNone(raw, "posts")
  \/ IsNone(raw, "experience")
  \/ IsNone(raw, "skills")
  \/ IsNone(raw, "education")

\* line 492: location or locationName or "".  The value is a dict or a
\* str: the dict is given as it is, the str s as [str |-> s].
LinkedinLocation(raw) ==
  IF HasKey(raw, "location") /\ TruthyDict(raw.location) THEN raw.location
  ELSE [str |-> GetSeqOr(raw, "locationName", <<>>)]

\* _standardize_linkedin_profile.  A key
\* read with .get(key, default) that holds None gives None.
StandardizeLinkedinProfile(raw) ==
  IF LinkedinStandardizeRaises(raw) THEN StdNone
  ELSE
    LET first == Strip(GetDefault(raw, "firstName", <<>>))
        last == Strip(GetDefault(raw, "lastName", <<>>))
        name == GetSeqOr(raw, "fullName",
                  GetSeqOr(raw, "name",
                    IF Strip(first \o <<" ">> \o last) # <<>>
                    THEN Strip(first \o <<" ">> \o last)
                    ELSE <<"L","i","n","k","e","d","I","n"," ","U","s","e","r">>))
        headline == GetSeqOr(raw, "headline",
                      GetSeqOr(raw, "summary",
                        GetSeqOr(raw, "about", <<"Professional LinkedIn user">>)))
        passed == {<<"connections", "connectionsCount">>, <<"industry", "industry">>,
                   <<"company", "company">>, <<"relevance_score", "relevance_score">>}
    IN OutDict(
         [username |-> name,
          bio |-> IF Len(headline) > 200 THEN SubSeq(headline, 1, 200) \o <<".", ".", ".">>
                  ELSE headline,
          platform |-> "linkedin",
          has_valid_content |->
            (/\ name # <<>>
             /\ name # <<"L","i","n","k","e","d","I","n"," ","U","s","e","r">>
             /\ (headline # <<>> \/ TruthySeqAt(raw, "experience"))),
          recent_posts |-> Prefix(GetDefault(raw, "posts", <<>>), 3),
          profile_url |-> GetSeqOr(raw, "profileUrl",
                            GetSeqOr(raw, "linkedinUrl", GetDefault(raw, "url", <<>>))),
          experience |-> Prefix(GetDefault(raw, "experience", <<>>), 3),
          location |-> LinkedinLocation(raw),
          connections |-> GetDefault(raw, "connectionsCount", 0),
          industry |-> GetDefault(raw, "industry", <<>>),
          company |-> GetDefault(raw, "company", <<>>),
          skills |-> Prefix(GetDefault(raw, "skills", <<>>), 5),
          education |-> Prefix(GetDefault(raw, "education", <<>>), 2),
          relevance_score |-> GetDefault(raw, "relevance_score", 0)],
         PassNulls(raw, passed)
           \cup {k \in {"profile_url"} :
                   /\ ~TruthySeqAt(raw, "profileUrl")
                   /\ ~TruthySeqAt(raw, "linkedinUrl")
                   /\ IsNone(raw, "url")},
         PassTexts(raw, passed))

\* lines 303-306: an exception inside the try
FacebookStandardizeRaises(raw) ==
  \/ IsNone(raw, "info")
  \/ IsNone(raw, "about_me")

\* sep.join(lst) for a list of strings
RECURSIVE JoinWith(_, _)
JoinWith(lst, sep) ==
  IF lst = <<>> THEN <<>>
  ELSE IF Len(lst) = 1 THEN lst[1]
  ELSE lst[1] \o sep \o JoinWith(Tail(lst), sep)

\* lines 335-341: the metrics dict.  likes and followers are read with
\* .get(key, 0), the three ratings with .get(key): a missing rating is None.
\* The dict is encoded as the documents are (`nulls`, and `texts` when a
\* value is a str).
FacebookMetrics(raw) ==
  LET MetricKeys == {"likes", "followers", "rating", "ratingOverall", "ratingCount"}
      nulls == {k \in MetricKeys :
                  \/ IsNone(raw, k)
                  \/ /\ k \notin {"likes", "followers"}
                     /\ ~HasKey(raw, k) /\ ~IsText(raw, k)}
  IN OutDict([k \in MetricKeys |-> GetDefault(raw, k, 0)], nulls,
             PassTexts(raw, {<<k, k>> : k \in MetricKeys}))

\* _standardize_facebook_profile (contact and page_metadata, copies that
\* nothing reads, are left out)
StandardizeFacebookProfile(raw) ==
  IF FacebookStandardizeRaises(raw) THEN StdNone
  ELSE
    LET page_name == GetSeqOr(raw, "pageName", <<>>)
        categories == GetSeqOr(raw, "categories", <<>>)
        info == JoinSpace(GetDefault(raw, "info", <<>>))
        about_me == IF HasKey(raw, "about_me")
                    THEN GetSeqOr(raw.about_me, "text", <<>>) ELSE <<>>
        likes == GetNumOr(raw, "likes", 0)
        followers == GetNumOr(raw, "followers", 0)
        username == IF page_name # <<>> THEN page_name
                    ELSE ExtractUsernameFromUrl(GetSeqOr(raw, "pageUrl", <<>>))
        bio_parts == (IF categories # <<>>
                      THEN <<JoinWith(categories, <<",", " ">>)>> ELSE <<>>)
                     \o (IF about_me # <<>> THEN <<Prefix(about_me, 120)>>
                         ELSE IF info # <<>> THEN <<Prefix(info, 120)>> ELSE <<>>)
        has_valid_content ==
          \/ categories # <<>>
          \/ info # <<>>
          \/ about_me # <<>>
          \/ likes # 0 \/ TruthyText(raw, "likes")
          \/ followers # 0 \/ TruthyText(raw, "followers")
        passed == {<<"profile_url", "pageUrl">>,
                   <<"relevance_score", "relevance_score">>}
    IN OutDict(
         [username |-> username,
          bio |-> IF bio_parts # <<>> THEN JoinWith(bio_parts, <<" ", "|", " ">>)
                  ELSE <<"Facebook business/page">>,
          platform |-> "facebook",
          has_valid_content |-> has_valid_content,
          profile_url |-> GetDefault(raw, "pageUrl", <<>>),
          metrics |-> FacebookMetrics(raw),
          relevance_score |-> GetDefault(raw, "relevance_score", 0),
          data_quality |-> IF has_valid_content THEN "valid" ELSE "empty",
          original_data |-> raw],
         PassNulls(raw, passed), PassTexts(raw, passed))

\* lines 509-517: an exception inside the try
GenericStandardizeRaises(raw) ==
  \/ /\ ~TruthySeqAt(raw, "bio") /\ ~TruthySeqAt(raw, "description")
     /\ IsNone(raw, "caption")
  \/ /\ ~TruthySeqAt(raw, "posts")
     /\ IsNone(raw, "latestComments")

\* _standardize_generic_profile.
\* The last operand of an `or` chain and a key read with .get(key, default)
\* give None when they hold None.
StandardizeGenericProfile(raw) ==
  IF GenericStandardizeRaises(raw) THEN StdNone
  ELSE
    LET passed == {<<"platform", "platform">>, <<"hashtags", "hashtags">>,
                   <<"relevance_score", "relevance_score">>}
    IN OutDict(
         [username |-> GetSeqOr(raw, "username",
                         GetSeqOr(raw, "name",
                           GetDefault(raw, "ownerUsername", <<"Unknown User">>))),
          bio |-> GetSeqOr(raw, "bio",
                    GetSeqOr(raw, "description",
                      Prefix(GetDefault(raw, "caption", <<>>), 200))),
          platform |-> GetDefault(raw, "platform", "unknown"),
          has_valid_content |-> TRUE,
          hashtags |-> GetDefault(raw, "hashtags", <<>>),
          recent_posts |-> GetSeqOr(raw, "posts",
                             Prefix(GetDefault(raw, "latestComments", <<>>), 3)),
          profile_url |-> GetSeqOr(raw, "url",
                            GetSeqOr(raw, "profileUrl", GetDefault(raw, "displayUrl", <<>>))),
          location |-> GetSeqOr(raw, "location", GetDefault(raw, "locationName", <<>>)),
          relevance_score |-> GetDefault(raw, "relevance_score", 0)],
         PassNulls(raw, passed)
           \cup {k \in {"username"} :
                   /\ ~TruthySeqAt(raw, "username") /\ ~TruthySeqAt(raw, "name")
                   /\ IsNone(raw, "ownerUsername")}
           \cup {k \in {"profile_url"} :
                   /\ ~TruthySeqAt(raw, "url") /\ ~TruthySeqAt(raw, "profileUrl")
                   /\ IsNone(raw, "displayUrl")}
           \cup {k \in {"location"} :
                   ~TruthySeqAt(raw, "location") /\ IsNone(raw, "locationName")},
         PassTexts(raw, passed))

\* lines 95-102: the standardizer of the platform
Standardize(profile, platform) ==
  CASE platform = "instagram" -> StandardizeInstagramProfile(profile)
    [] platform = "linkedin" -> StandardizeLinkedinProfile(profile)
    [] platform = "facebook" -> StandardizeFacebookProfile(profile)
    [] OTHER -> StandardizeGenericProfile(profile)

(* ------------------- retrieval tool: the call ------------------------- *)

\* f"No {platform} data found" and the other reasons, kept in their parts
ErrorObject(reason, platform) == [error |-> reason, platform |-> platform]

\* lines 58-69: audience_collection.find(query).  The query names the
\* client only when one is given (`if client_id:`) and the platform, in
\* lower case, only when one is given (`if platform:`): None and "" name
\* none, and the documents of every platform match.
Find(docs, client_id, platform) ==
  SelectSeq(docs, LAMBDA d :
     /\ client_id # "" => HasKey(d, "client_id") /\ d.client_id = client_id
     /\ platform # "" => HasKey(d, "platform") /\ d.platform = Lower(platform))

\* every profile a standardizer returns is kept, whatever its flag
ProcessedAny(top_profiles, platform) ==
  SelectSeq([k \in 1..Len(top_profiles) |-> Standardize(top_profiles[k], platform)],
            LAMBDA processed_profile : processed_profile # StdNone)

\* lines 93-105: the standardized profiles that are not None and have
\* has_valid_content
RECURSIVE Processed(_, _)
Processed(top_profiles, platform) ==
  IF top_profiles = <<>> THEN <<>>
  ELSE LET processed_profile == Standardize(Head(top_profiles), platform)
           rest == Processed(Tail(top_profiles), platform)
       IN IF processed_profile # StdNone /\ processed_profile.has_valid_content
          THEN <<processed_profile>> \o rest
          ELSE rest

\* the candidates scored and sorted whether or not search terms are given
ScoredProfilesAlways(valid_results, search_terms, platform) ==
  IF \E k \in 1..Len(valid_results) : ScoreRaises(valid_results[k], platform)
  THEN [raised |-> TRUE, value |-> <<>>]
  ELSE [raised |-> FALSE,
        value |-> SortByScore(
          [k \in 1..Len(valid_results) |->
             WithKey(valid_results[k], "relevance_score",
                     ScoreOf(valid_results[k], LowerAll(search_terms), platform))])]

\* _run, the scoring step: the scorer is called only with search terms;
\* without them the valid records are taken as they are
ScoredProfiles(valid_results, search_terms, platform) ==
  IF search_terms # <<>>
  THEN ScoreProfilesByRelevance(valid_results, search_terms, platform)
  ELSE [raised |-> FALSE, value |-> valid_results]

\* FetchFromMongoTool._run: the frame when it returns, with its locals
\* (the locals it did not come to are empty) and its result.  The
\* validator, the scorer and the standardizers are chosen by the platform
\* as the call spells it; only the query has it in lower case.  With
\* platform None line 70 (platform.upper()) raises once find has returned.
\* An exception gives the object of line 120, tagged `platform or "unknown"`.
RunFrame(docs, args) ==
  LET platform == args.platform
      tag == IF platform = "" THEN "unknown" ELSE platform
      all_results == Find(docs, args.client_id, platform)
      valid_results == ValidatePlatformData(all_results, platform)
      scored == ScoredProfiles(valid_results, args.search_terms, platform)
      top_profiles == Prefix(scored.value, args.limit)
      processed_profiles == Processed(top_profiles, platform)
      frame == [pc |-> "returned", all_results |-> all_results,
                valid_results |-> <<>>, scored_profiles |-> <<>>,
                top_profiles |-> <<>>, processed_profiles |-> <<>>]
  IN IF "platform" \in args.nulls
     THEN [result |-> ErrorObject(<<"exception">>, tag)] @@ frame
     ELSE IF all_results = <<>>
     THEN [result |-> ErrorObject(<<"No ", platform, " data found">>, platform)]
          @@ frame
     ELSE IF ValidateRaises(all_results, platform)
     THEN [result |-> ErrorObject(<<"exception">>, tag)] @@ frame
     ELSE IF valid_results = <<>>
     THEN [result |-> ErrorObject(<<"No valid ", platform, " content found">>, platform)
                        @@ [raw_data |-> Prefix(all_results, 1)]]
          @@ frame
     ELSE IF scored.raised
     THEN [result |-> ErrorObject(<<"exception">>, tag)] @@
          [frame EXCEPT !.valid_results = valid_results]
     ELSE IF processed_profiles = <<>>
     THEN [result |-> ErrorObject(<<"No valid ", platform, " profiles after processing">>,
                                  platform)
                        @@ [raw_data_sample |-> Prefix(all_results, 1)]] @@
          [frame EXCEPT !.valid_results = valid_results,
                        !.scored_profiles = scored.value,
                        !.top_profiles = top_profiles]
     ELSE [result |-> processed_profiles[1]] @@
          [frame EXCEPT !.valid_results = valid_results,
                        !.scored_profiles = scored.value,
                        !.top_profiles = top_profiles,
                        !.processed_profiles = processed_profiles]

(* ------------------- retrieval tool: inputs --------------------------- *)

\* stored documents at most
MaxDocs == 3

\* search terms of a call at most
MaxTerms == 2

\* the largest `limit` of a call (1 when the caller names none); the
\* smallest is -1, and scored_profiles[:-1] leaves out the last candidate
MaxLimit == 2

tA == <<"a">>
tB == <<"b">>
tAB == <<"a", "b">>
tUpperA == <<"A">>
tBlank == <<" ">>
tLinkedInUser == <<"L","i","n","k","e","d","I","n"," ","U","s","e","r">>

\* the URL of an Instagram post: https://www.instagram.com/p/x/
uPost == <<"https://www.", "instagram.com/", "p", "/", "x", "/">>

\* Stored documents of client "c1", by platform.  Instagram: a post with
\* hashtags and counts; a post with a caption only; a whitespace caption
\* (no content); a post whose caption is null; a document that has a
\* username and none of caption, hashtags and ownerId.
igTagged ==
  [client_id |-> "c1", platform |-> "instagram", nulls |-> {},
   caption |-> tAB, hashtags |-> <<tA, tAB>>, ownerId |-> <<"7">>,
   url |-> uPost, likesCount |-> 11, commentsCount |-> 3]
igCaption ==
  [client_id |-> "c1", platform |-> "instagram", nulls |-> {},
   caption |-> tUpperA, ownerId |-> <<"8">>]
igBlank ==
  [client_id |-> "c1", platform |-> "instagram", nulls |-> {},
   caption |-> tBlank]
igNullCaption ==
  [client_id |-> "c1", platform |-> "instagram", nulls |-> {"caption"},
   ownerId |-> <<"9">>]
igUsername ==
  [client_id |-> "c1", platform |-> "instagram", nulls |-> {},
   username |-> tA]

\* LinkedIn: a full profile; first and last name with an about text; the
\* placeholder name; a name and nothing else.
liFull ==
  [client_id |-> "c1", platform |-> "linkedin", nulls |-> {},
   fullName |-> tAB, headline |-> tA, summary |-> tB, industry |-> tA,
   experience |-> <<tA, tB, tA, tA>>, connectionsCount |-> 501,
   company |-> tB, skills |-> <<tA, tB, tA, tB, tA, tB>>,
   education |-> <<tA, tB, tA>>, linkedinUrl |-> <<"https://www.", "linkedin.com/in/", "ab">>]
liNames ==
  [client_id |-> "c1", platform |-> "linkedin", nulls |-> {"headline"},
   firstName |-> tA, lastName |-> tB, about |-> <<" ", "a">>]
liPlaceholder ==
  [client_id |-> "c1", platform |-> "linkedin", nulls |-> {},
   fullName |-> tLinkedInUser, headline |-> tA]
liNoContent ==
  [client_id |-> "c1", platform |-> "linkedin", nulls |-> {},
   fullName |-> tB]

\* Facebook: a page with everything; a page whose info is one empty line;
\* a page whose about_me is null; a page with nothing; a page whose like
\* count is a str and that has nothing else.
fbPage ==
  [client_id |-> "c1", platform |-> "facebook", nulls |-> {},
   pageName |-> tA, categories |-> <<tA>>, info |-> <<tB>>, title |-> tB,
   about_me |-> [text |-> tA, nulls |-> {}], likes |-> 150, followers |-> 0,
   ratingOverall |-> 4]
fbInfoBlank ==
  [client_id |-> "c1", platform |-> "facebook", nulls |-> {},
   info |-> <<<<>>>>]
fbNullAbout ==
  [client_id |-> "c1", platform |-> "facebook", nulls |-> {"about_me"},
   likes |-> 100]
fbEmpty ==
  [client_id |-> "c1", platform |-> "facebook", nulls |-> {}]
fbTextLikes ==
  [client_id |-> "c1", platform |-> "facebook", nulls |-> {},
   texts |-> [likes |-> <<"1", "K">>]]

\* Any other platform: a user with a bio; a user whose caption is null; a
\* document with nothing.
gUser ==
  [client_id |-> "c1", platform |-> "tiktok", nulls |-> {},
   username |-> tA, bio |-> tB]
gNullCaption ==
  [client_id |-> "c1", platform |-> "tiktok", nulls |-> {"caption"},
   username |-> tB]
gEmpty ==
  [client_id |-> "c1", platform |-> "tiktok", nulls |-> {}]

\* the same document under another client
OfClient(d, c) == [d EXCEPT !.client_id = c]

\* the platforms a call names: the three supported ones, another one, a
\* supported one with a capital, and the empty str
CallPlatforms == SupportedPlatforms \cup {"tiktok", "Instagram", ""}

\* the documents a store may hold when the query names the platform: those
\* of the platform, one of another client and one of another platform;
\* when it names none: documents of every platform and of another client
PoolOf(platform) ==
  CASE platform = "instagram" ->
         {igTagged, igCaption, igBlank, igNullCaption, igUsername,
          OfClient(igCaption, "c2"), liFull}
    [] platform = "linkedin" ->
         {liFull, liNames, liPlaceholder, liNoContent, OfClient(liNames, "c2"), igTagged}
    [] platform = "facebook" ->
         {fbPage, fbInfoBlank, fbNullAbout, fbEmpty, fbTextLikes,
          OfClient(fbPage, "c2"), igTagged}
    [] platform = "" ->
         {igCaption, igBlank, igNullCaption, igUsername, liFull, fbPage, gUser,
          OfClient(igCaption, "c2")}
    [] OTHER ->
         {gUser, gNullCaption, gEmpty, OfClient(gUser, "c2"), igTagged}

Stores(platform) == SeqsUpTo(PoolOf(Lower(platform)), MaxDocs)

SearchTerms == {tA, tB, tUpperA}

\* The arguments of a call (line 55).  `nulls` holds "platform" when the
\* platform is None (the default), and `platform` is then "".  A client_id
\* of None is the call with "" and search_terms of None the call with []:
\* the code only tests them for truth (lines 59, 84).
Calls ==
  [client_id : {"c1", ""}, platform : CallPlatforms, nulls : {{}},
   search_terms : SeqsUpTo(SearchTerms, MaxTerms), limit : -1..MaxLimit]
  \cup
  [client_id : {"c1", ""}, platform : {""}, nulls : {{"platform"}},
   search_terms : SeqsUpTo(SearchTerms, MaxTerms), limit : -1..MaxLimit]

(* ------------------- retrieval tool: specification -------------------- *)

\* the service of Init, standing still
ServiceIdle ==
  /\ clients = [c \in {} |-> 0]
  /\ audience = EmptyBag
  /\ tasks = [t \in {} |-> 0]
  /\ proc = [t \in TaskIds |-> IdleFrame]
  /\ nextTask = 1
  /\ now = 0
  /\ served = 0
  /\ lastRun = [c \in ClientIds |-> NoRun]
  /\ resp = NoResponse
  /\ handler = NoHandler

\* a call of the tool on a store
InitTool ==
  /\ ServiceIdle
  /\ call \in Calls
  /\ store \in Stores(call.platform)
  /\ tool = [pc |-> "called"]
  /\ crew = NoCrew

\* FetchFromMongoTool._run, from its first statement to its return
RunTool ==
  /\ tool.pc = "called"
  /\ tool' = RunFrame(store, call)
  /\ UNCHANGED <<store, call, crew>>
  /\ UNCHANGED <<clients, audience, tasks, proc, nextTask, now, served, lastRun, handler, resp>>

NextTool == RunTool

SpecTool == InitTool /\ [][NextTool]_vars

(* ------------------- the crew of kickoff_message_generation ----------- *)

\* mutant of CrewTasks: the retrieval task listed first
CrewTasksRetrievalFirst == <<"task2", "task1", "task3">>

\* line 685: tasks=[task1, task2, task3]; task1 extracts the requirements
\* (lines 596-615), task2 retrieves a candidate (618-637), task3 writes
\* the message (640-679)
CrewTasks == <<"task1", "task2", "task3">>

\* lines 632 and 674: context=[task1], context=[task2]; task1 names none
TaskContext(task) ==
  CASE task = "task2" -> <<"task1">>
    [] task = "task3" -> <<"task2">>
    [] OTHER -> <<>>

\* What an agent may hand back for a task: the requirements (the arguments
\* of the retrieval), a profile or an error object, a message or the
\* acknowledgment of insufficient data.  The text is the language model's.
TaskOutputs(task) ==
  CASE task = "task1" ->
         {c \in Calls : c.client_id = "c1" /\ c.platform = "instagram" /\ c.limit = 1}
    [] task = "task2" -> {"profile", "error object"}
    [] OTHER -> {"message", "insufficient data"}

\* the output a task of the context has produced, None when it has none
OutputOf(task) ==
  IF \E k \in 1..Len(crew.output) : crew.started[k] = task
  THEN <<crew.output[CHOOSE k \in 1..Len(crew.output) : crew.started[k] = task]>>
  ELSE <<"None">>

\* line 692: crew.kickoff
CrewKickoff ==
  /\ crew.pc = "idle"
  /\ crew' = [crew EXCEPT !.pc = "next"]
  /\ UNCHANGED <<store, call, tool>>
  /\ UNCHANGED <<clients, audience, tasks, proc, nextTask, now, served, lastRun, handler, resp>>

\* line 686, Process.sequential: the next task of the list starts when the
\* one before it has returned, with the outputs of its context
CrewStartTask ==
  /\ crew.pc = "next"
  /\ Len(crew.started) < Len(CrewTasks)
  /\ LET task == CrewTasks[Len(crew.started) + 1]
         ctx == TaskContext(task)
     IN crew' = [crew EXCEPT
          !.pc = "running",
          !.started = Append(@, task),
          !.context = Append(@, [k \in 1..Len(ctx) |-> OutputOf(ctx[k])])]
  /\ UNCHANGED <<store, call, tool>>
  /\ UNCHANGED <<clients, audience, tasks, proc, nextTask, now, served, lastRun, handler, resp>>

\* the agent of the running task returns its output
CrewFinishTask ==
  /\ crew.pc = "running"
  /\ \E out \in TaskOutputs(crew.started[Len(crew.started)]) :
       crew' = [crew EXCEPT
         !.pc = IF Len(crew.started) = Len(CrewTasks) THEN "returned" ELSE "next",
         !.output = Append(@, out)]
  /\ UNCHANGED <<store, call, tool>>
  /\ UNCHANGED <<clients, audience, tasks, proc, nextTask, now, served, lastRun, handler, resp>>

\* the running task raises (the model's API answers with an error):
\* kickoff raises, and lines 695-701 return the error dict
CrewTaskRaises ==
  /\ crew.pc = "running"
  /\ crew' = [crew EXCEPT !.pc = "raised"]
  /\ UNCHANGED <<store, call, tool>>
  /\ UNCHANGED <<clients, audience, tasks, proc, nextTask, now, served, lastRun, handler, resp>>

InitCrew ==
  /\ ServiceIdle
  /\ store = <<>>
  /\ call = NoCall
  /\ tool = IdleTool
  /\ crew = NoCrew

NextCrew ==
  \/ CrewKickoff
  \/ CrewStartTask
  \/ CrewFinishTask
  \/ CrewTaskRaises

SpecCrew == InitCrew /\ [][NextCrew]_vars

(* ------------------------------ scheduling ---------------------------- *)

\* The statements of a background task that are the service's own: once the
\* task's thread or coroutine is at one of them it executes it.  The two
\* calls out of the service are not among them: client.actor(...).call(...)
\* (cosmetics.py 121-132) and the executor's kickoff_message_generation
\* (cosmetics.py 359-365) are awaited with no timeout argument and no
\* asyncio.wait_for, so nothing in the code makes them return.
OwnStep(t) ==
  \/ FetchBegin(t)
  \/ FetchFindClient(t)
  \/ FetchKey(t)
  \/ FetchLookup(t)
  \/ FetchInsert(t)
  \/ FetchUpdateClient(t)
  \/ FetchSetCompleted(t)
  \/ FetchSetResult(t)
  \/ FetchExcept(t)
  \/ FetchSleep(t)
  \/ FetchDelete(t)
  \/ GenBegin(t)
  \/ GenLookup(t)
  \/ GenSave(t)
  \/ GenSetCompleted(t)
  \/ GenSetResult(t)
  \/ GenExcept(t)
  \/ GenExceptResult(t)
  \/ GenExceptClient(t)

\* time passes as well, so that a sleeping run wakes up
SpecLive ==
  /\ Init /\ [][Next]_vars
  /\ WF_vars(Tick)
  /\ WF_vars(\E c \in ClientIds : GenerateMessages(c))
  /\ \A t \in TaskIds : WF_vars(OwnStep(t))

(* ------------------------------- claims ------------------------------- *)

NotFoundStatus == "not found or completed (cleaned up)"

FailedStatuses ==
  {"failed: Client not found", "failed: store error", "failed: kickoff error",
   "failed: client not found", "failed: error"}

TerminalStatuses == {"completed"} \cup FailedStatuses

\* the stored documents of one (client_id, platform, unique_key)
DocsOfKey(c, platform, key) ==
  {d \in BagToSet(audience) :
     d.client_id = c /\ d.platform = platform /\ d.unique_key = key}

\* C1: after any sequence of non-overlapping ingestion runs the audience
\* store holds no two records with the same unique_key for the same
\* (client_id, platform): any two stored documents that agree on the three
\* fields are one document, stored once.
C1_NoDuplicateKey ==
  \A d1 \in BagToSet(audience) :
     /\ CopiesIn(d1, audience) = 1
     /\ \A d2 \in BagToSet(audience) :
          (d1.client_id = d2.client_id /\ d1.platform = d2.platform
             /\ d1.unique_key = d2.unique_key) => d1 = d2

\* a run that fetched a non-empty record and stored nothing: every record
\* it looked up was already there
C1_Witness ==
  \E t \in TaskIds :
     /\ proc[t].kind = "fetch" /\ proc[t].pc = "cleanup" /\ proc[t].src = "ok"
     /\ proc[t].err = "" /\ proc[t].stored_count = 0
     /\ \E k \in 1..Len(proc[t].results) : Truthy(proc[t].results[k])

\* C2: a run whose profile-source call returned the very item list that
\* the client's last completed run had received stores nothing new,
\* whatever the records are.
C2_RerunStoresNothing ==
  \A t \in TaskIds :
     (/\ proc[t].kind = "fetch"
      /\ proc[t].pc \in {"complete", "result", "cleanup"}
      /\ proc[t].src = "ok"
      /\ lastRun[proc[t].client_id].ran
      /\ lastRun[proc[t].client_id].results = proc[t].results)
     => proc[t].stored_count = 0

\* C3: ingestion tasks whose find-then-insert steps interleave never both
\* insert a record with the same (client_id, platform, unique_key).  Stated
\* for the keys read from a field of the record (one component), so that
\* no coincidence of clock readings is involved: the store never holds
\* more than one document per such triple.
C3_ConcurrentRunsInsertOnce ==
  \A d \in BagToSet(audience) :
     Len(d.unique_key) = 1 =>
       /\ CopiesIn(d, audience) <= 1
       /\ Cardinality(DocsOfKey(d.client_id, d.platform, d.unique_key)) <= 1

\* C4: the key computed for a record depends on the record's field values
\* alone: the key a run is about to insert is the key the same record gets
\* at every other position of the item list and at every other time.
C4_KeyDependsOnRecordOnly ==
  \A t \in TaskIds :
     (proc[t].kind = "fetch" /\ proc[t].pc = "insert") =>
       \A j \in 0..MaxItems, ts \in 0..(MaxTime + SleepSecs) :
          UniqueKey(proc[t].results[proc[t].i + 1], proc[t].platform, j, ts)
            = proc[t].unique_key

StatusForward(a, b) ==
  \/ a = b
  \/ a = "pending" /\ b = "running"
  \/ a = "running" /\ b \in TerminalStatuses

\* C5: a registry entry is created as "pending"; from then on its status
\* only moves pending -> running -> completed or failed:<reason>, and a
\* terminal status never changes.
C5_StatusMovesForward ==
  [][\A t \in TaskIds :
       t \in DOMAIN tasks' =>
         IF t \in DOMAIN tasks
         THEN StatusForward(tasks[t].status, tasks'[t].status)
         ELSE tasks'[t].status = "pending"]_vars

\* one task holds "completed" and another a failure status
C5_Witness ==
  \E t \in DOMAIN tasks, u \in DOMAIN tasks :
     tasks[t].status = "completed" /\ tasks[u].status \in FailedStatuses

\* C6: every task that reached a terminal status is removed from the
\* registry: once the background function of a task has returned, the
\* registry no longer holds the task.
C6_FinishedTaskRemoved ==
  \A t \in TaskIds : proc[t].pc = "done" => t \notin DOMAIN tasks

\* C7: a status response that shows an ingestion task as "completed"
\* carries details with a result that has a stored_count.
C7_CompletedHasStoredCount ==
  (resp.status = "completed" /\ proc[resp.task_id].kind = "fetch") =>
     /\ "result" \in DOMAIN resp.details
     /\ "stored_count" \in DOMAIN resp.details.result

\* C8: a status query changes nothing in the registry, and for an
\* identifier the registry does not hold (never created, or removed) it
\* answers with the "not found" body and nothing else.
C8_UnknownTaskNotFound ==
  [][(~InFlight(resp) /\ resp' # NoResponse) =>
       /\ tasks' = tasks
       /\ resp'.task_id \notin DOMAIN tasks =>
            resp' = [task_id |-> resp'.task_id, status |-> NotFoundStatus]]_vars

\* the query of an ingestion task that ran and was removed
C8_Witness ==
  /\ resp.status = NotFoundStatus
  /\ proc[resp.task_id].kind = "fetch"
  /\ proc[resp.task_id].pc = "done"

\* C9: a generation task whose three-stage chain failed (crew.kickoff
\* raised) is never marked completed.
C9_ChainFailureNotCompleted ==
  \A t \in DOMAIN tasks :
     (proc[t].kind = "generate" /\ proc[t].chain = "error_dict")
       => tasks[t].status # "completed"

\* C11: once an ingestion run whose profile-source call succeeded has
\* written the client's status (and is about to complete), that status is
\* "data_fetched", also when the run stored no new record.
C11_FetchedEvenIfNothingNew ==
  \A t \in TaskIds :
     (/\ proc[t].kind = "fetch"
      /\ proc[t].pc = "complete"
      /\ proc[t].src = "ok")
     => clients[proc[t].client_id].status = "data_fetched"

\* C12: an ingestion run whose profile-source call failed with an error
\* leaves the client document as it was: the step that follows the record
\* loop of such a run changes nothing in the client store.
C12_SourceErrorLeavesClient ==
  [][\A t \in TaskIds :
       (/\ proc[t].kind = "fetch"
        /\ proc[t].src = "error"
        /\ proc[t].pc = "loop"
        /\ proc'[t].pc = "complete")
       => clients' = clients]_vars

\* C20: once a generation task whose chain returned the crew's output is
\* marked completed, the `status` field of its client (the field that
\* registration and ingestion write) holds the messages-generated state.
C20_StatusIsMessagesGenerated ==
  \A t \in DOMAIN tasks :
     (/\ proc[t].kind = "generate"
      /\ proc[t].chain = "crew_output"
      /\ proc[t].pc = "result"
      /\ tasks[t].status = "completed")
     => clients[proc[t].client_id].status
          \in {"messages_generated", "message_generated"}

\* C19: every task that was triggered eventually holds a terminal status
\* in the registry, whatever the profile source and the generation engine
\* do (also when their call never returns).
C19_EveryTaskReachesTerminal ==
  \A t \in TaskIds :
     (proc[t].kind # "none")
       ~> (t \in DOMAIN tasks /\ tasks[t].status \in TerminalStatuses)

\* the validity rule of the platform, for one stored record: the rule of
\* one of the three supported platforms, the general rule for any other
PassesFilter(d, platform) ==
  CASE platform = "facebook" -> FacebookValid(d)
    [] platform = "instagram" -> InstagramValid(d)
    [] platform = "linkedin" -> LinkedinValid(LinkedinCleaned(d))
    [] OTHER -> GenericValid(d)

\* a candidate without the score the scorer gave it
Unscored(x) == DelKey(x, "relevance_score")

\* the candidate a stored record becomes when it is passed on
CandidateOf(d, platform) ==
  IF platform = "linkedin" THEN LinkedinCleaned(d) ELSE d

Returned == tool.pc = "returned"

IsProfile(r) == "username" \in DOMAIN r

\* C13: no stored record that fails the validity filter of its platform
\* (the platform the record is stored under) is among the candidates that
\* were scored or standardized, and a profile that is returned is the
\* standardized form of a candidate that was.
C13_InvalidNeverProcessed ==
  Returned =>
    /\ \A k \in 1..Len(store) :
         ~PassesFilter(store[k], store[k].platform) =>
           /\ \A j \in 1..Len(tool.scored_profiles) :
                Unscored(tool.scored_profiles[j]) # CandidateOf(store[k], call.platform)
           /\ \A j \in 1..Len(tool.top_profiles) :
                Unscored(tool.top_profiles[j]) # CandidateOf(store[k], call.platform)
    /\ IsProfile(tool.result) =>
         \E j \in 1..Len(tool.top_profiles) :
            tool.result = Standardize(tool.top_profiles[j], call.platform)

\* the stored records of the requested client and platform: the platform
\* the call names, in whatever case it names it
Requested ==
  SelectSeq(store, LAMBDA d :
     /\ call.client_id # "" => d.client_id = call.client_id
     /\ d.platform = Lower(call.platform))

\* C14: when the store holds no record of the requested client and
\* platform, or none of them passes the validity filter of the platform,
\* the call returns an object with a reason under "error" and a tag under
\* "platform" (the platform of the call, "unknown" when it names none),
\* and no profile.
C14_NoCandidateGivesError ==
  (/\ Returned
   /\ \A k \in 1..Len(Requested) :
         ~PassesFilter(Requested[k], Requested[k].platform))
  => /\ ~IsProfile(tool.result)
     /\ "error" \in DOMAIN tool.result
     /\ tool.result.error # <<>>
     /\ tool.result.platform \in {call.platform, "unknown"}

\* the candidate standardizes to a profile that has content
Standardizes(x, platform) ==
  /\ Standardize(x, platform) # StdNone
  /\ Standardize(x, platform).has_valid_content

\* C15: when the standardizer fails (returns None) on a candidate the call
\* standardized and some other valid candidate standardizes to a profile
\* with content, the call returns a profile, not an error object.
C15_StandardizationFailureIsLocal ==
  (/\ Returned
   /\ \E j \in 1..Len(tool.top_profiles) :
        Standardize(tool.top_profiles[j], call.platform) = StdNone
   /\ \E k \in 1..Len(tool.valid_results) :
        Standardizes(tool.valid_results[k], call.platform))
  => IsProfile(tool.result)

\* C16: when the scorer ran (search terms given, no exception), its output
\* is a rearrangement of its input, every element with a relevance_score,
\* in descending order of score, and elements of equal score are in the
\* order they had in the input.
C16_ScorerIsStableSort ==
  (Returned /\ call.search_terms # <<>> /\ tool.scored_profiles # <<>>) =>
    LET inp == tool.valid_results
        out == tool.scored_profiles
    IN /\ Len(out) = Len(inp)
       /\ \A j \in 1..Len(out) : "relevance_score" \in DOMAIN out[j]
       /\ \A j \in 1..(Len(out) - 1) :
            out[j].relevance_score >= out[j + 1].relevance_score
       /\ \E perm \in Permutations(1..Len(inp)) :
            /\ \A j \in 1..Len(out) : Unscored(out[j]) = inp[perm[j]]
            /\ \A i \in 1..Len(out), j \in 1..Len(out) :
                 (i < j /\ out[i].relevance_score = out[j].relevance_score)
                   => perm[i] < perm[j]

\* three candidates scored, two different ones with the same score, the
\* third with another score
C16_Witness ==
  /\ Returned /\ call.search_terms # <<>>
  /\ Len(tool.scored_profiles) = 3
  /\ \E i \in 1..3, j \in 1..3 :
       /\ i < j
       /\ tool.scored_profiles[i].relevance_score = tool.scored_profiles[j].relevance_score
       /\ tool.scored_profiles[i] # tool.scored_profiles[j]
  /\ tool.scored_profiles[1].relevance_score # tool.scored_profiles[3].relevance_score

\* C17: the stages of one crew run start in the order requirement
\* extraction (task1), candidate retrieval (task2), message synthesis
\* (task3); a stage starts only when the stage before it has produced its
\* output, and that output is the context the stage receives.
C17_StagesInOrder ==
  /\ \A k \in 1..Len(crew.started) :
       /\ crew.started[k] = <<"task1", "task2", "task3">>[k]
       /\ k > 1 => /\ Len(crew.output) >= k - 1
                   /\ crew.context[k] = << <<crew.output[k - 1]>> >>
  /\ Len(crew.started) - Len(crew.output) \in {0, 1}

\* a crew run whose three stages have returned
C17_Witness ==
  /\ crew.pc = "returned"
  /\ Len(crew.output) = 3

\* the Instagram score as the rule states it: a term counts once for the
\* hashtags, however many of them it matches
InstagramScoreByRule(x, terms) ==
  LET caption == LowerStr(GetDefault(x, "caption", <<>>))
      hashtags == LowerAll(GetDefault(x, "hashtags", <<>>))
  IN 3 * Cardinality({k \in 1..Len(terms) :
                        \E h \in 1..Len(hashtags) :
                           \/ Contains(terms[k], hashtags[h])
                           \/ Contains(hashtags[h], terms[k])})
     + 2 * TermsIn(terms, caption)
     + (IF GetDefault(x, "likesCount", 0) > 10 THEN 1 ELSE 0)
     + (IF GetDefault(x, "commentsCount", 0) > 2 THEN 1 ELSE 0)

\* C21: the score the scorer gives an Instagram candidate is +3 for each
\* search term that matches (substring, either direction) at least one
\* hashtag, +2 for each term in the caption, +1 for more than 10 likes
\* and +1 for more than 2 comments.
C21_InstagramScore ==
  (Returned /\ call.platform = "instagram" /\ call.search_terms # <<>>) =>
    \A j \in 1..Len(tool.scored_profiles) :
       tool.scored_profiles[j].relevance_score
         = InstagramScoreByRule(tool.scored_profiles[j], LowerAll(call.search_terms))

\* the LinkedIn score as the rule states it: a term counts once for the
\* three most recent experience entries, however many of them it matches
LinkedinScoreByRule(x, terms) ==
  LET headline == LowerStr(GetDefault(x, "headline", <<>>))
      summary == LowerStr(GetDefault(x, "summary", <<>>))
      industry == LowerStr(GetDefault(x, "industry", <<>>))
      experience == LowerAll(Prefix(GetDefault(x, "experience", <<>>), 3))
  IN 4 * TermsIn(terms, headline)
     + 3 * TermsIn(terms, summary)
     + 2 * TermsIn(terms, industry)
     + 2 * Cardinality({k \in 1..Len(terms) :
                          \E e \in 1..Len(experience) : Contains(terms[k], experience[e])})
     + (IF GetDefault(x, "connectionsCount", 0) > 500 THEN 1 ELSE 0)

\* C22: the score the scorer gives a LinkedIn candidate is +4 per term in
\* the headline, +3 per term in the summary, +2 per term in the industry,
\* +2 per term found in any of the first three experience entries (once
\* per term) and +1 for more than 500 connections.
C22_LinkedinScore ==
  (Returned /\ call.platform = "linkedin" /\ call.search_terms # <<>>) =>
    \A j \in 1..Len(tool.scored_profiles) :
       tool.scored_profiles[j].relevance_score
         = LinkedinScoreByRule(tool.scored_profiles[j], LowerAll(call.search_terms))

\* the stored records that pass the filter, in their stored order, as the
\* candidates they become
ValidInOrder(all_results, platform) ==
  LET passing == SelectSeq(all_results, LAMBDA d : PassesFilter(d, platform))
  IN [k \in 1..Len(passing) |-> CandidateOf(passing[k], platform)]

\* C23: with an empty list of search terms nothing is scored: the
\* candidates are the valid records in their stored order, none carries a
\* score, and the profile returned has relevance score zero.
C23_NoTermsNoScoring ==
  (Returned /\ call.search_terms = <<>> /\ tool.valid_results # <<>>) =>
    /\ tool.scored_profiles = tool.valid_results
    /\ tool.scored_profiles = ValidInOrder(tool.all_results, call.platform)
    /\ \A j \in 1..Len(tool.scored_profiles) :
          ~HasKey(tool.scored_profiles[j], "relevance_score")
    /\ IsProfile(tool.result) => tool.result.relevance_score = 0

C23_Witness ==
  /\ Returned /\ call.search_terms = <<>>
  /\ Len(tool.scored_profiles) >= 2
  /\ IsProfile(tool.result)
  /\ ScoreOf(tool.scored_profiles[1], <<>>, call.platform)
       < ScoreOf(tool.scored_profiles[2], <<>>, call.platform)

\* the LinkedIn validity rule, read off the stored record: texts count
\* without their surrounding whitespace
LinkedinValidByRule(d) ==
  LET text(k) == Strip(GetSeqOr(d, k, <<>>))
      full == Strip(GetSeqOr(d, "fullName", GetSeqOr(d, "name", <<>>)))
      name == IF full # <<>> THEN full
              ELSE Strip(text("firstName") \o <<" ">> \o text("lastName"))
  IN /\ name # <<>>
     /\ LowerStr(name) # LowerStr(tLinkedInUser)
     /\ \/ text("headline") # <<>>
        \/ text("summary") # <<>>
        \/ text("about") # <<>>
        \/ GetSeqOr(d, "experience", <<>>) # <<>>

\* C24: a LinkedIn record is valid exactly when its display name (the
\* full name, else first and last name) is non-empty and is not the
\* placeholder "linkedin user" in any casing, and at least one of
\* headline, summary, about-text and experience list is non-empty: the
\* valid records of a LinkedIn call are the stored records of that kind.
C24_LinkedinValidity ==
  (Returned /\ call.platform = "linkedin" /\ tool.all_results # <<>>) =>
    LET ruled == SelectSeq(tool.all_results, LinkedinValidByRule)
    IN /\ (ruled = <<>>) = (tool.result = ErrorObject(<<"No valid ", "linkedin", " content found">>, "linkedin")
                                             @@ [raw_data |-> Prefix(tool.all_results, 1)])
       /\ tool.valid_results = [k \in 1..Len(ruled) |-> LinkedinCleaned(ruled[k])]

C24_Witness ==
  /\ Returned /\ call.platform = "linkedin"
  /\ Len(tool.valid_results) = 1
  /\ \E i, j \in 1..Len(tool.all_results) :
        /\ tool.all_results[i] = liPlaceholder
        /\ tool.all_results[j] = liNames

\* C25: every record that passes the filter of its platform is
\* standardized with has_valid_content true: no candidate that reached
\* standardization and came out as a profile is discarded for its flag.
C25_ValidMeansValidContent ==
  Returned =>
    \A j \in 1..Len(tool.top_profiles) :
       LET std == Standardize(tool.top_profiles[j], call.platform)
       IN std # StdNone => std.has_valid_content

\* a record whose post URL gives no username: no URL, or a URL in which
\* no known host is followed by a path segment
NoUsernameInUrl(x) ==
  LET url == GetDefault(x, "url", <<>>)
  IN \/ url = <<>>
     \/ \A h \in 1..Len(UrlHosts) : HostMatches(url, UrlHosts[h]) = {}

\* C26: an Instagram profile returned for a record whose post URL gives
\* no username has the canonical username user_<ownerId>.
C26_InstagramUsernameFallback ==
  (Returned /\ call.platform = "instagram" /\ IsProfile(tool.result)) =>
    \A j \in 1..Len(tool.top_profiles) :
       (/\ StandardizeInstagramProfile(tool.top_profiles[j]) = tool.result
        /\ NoUsernameInUrl(tool.top_profiles[j]))
         => tool.result.username
              = <<"user_">> \o GetDefault(tool.top_profiles[j], "ownerId", <<"unknown">>)

\* C27: a LinkedIn profile returned carries the connection count, the
\* industry, the company, the first five skills and the first two
\* education entries of the stored record it was made from.
C27_LinkedinCarriesStoredFields ==
  (Returned /\ call.platform = "linkedin" /\ IsProfile(tool.result)) =>
    \A i \in 1..Len(tool.all_results) :
       LET d == tool.all_results[i]
           scored == WithKey(LinkedinCleaned(d), "relevance_score",
                             tool.result.relevance_score)
       IN (LinkedinValid(LinkedinCleaned(d)) /\ StandardizeLinkedinProfile(scored) = tool.result)
            => /\ tool.result.connections = GetDefault(d, "connectionsCount", 0)
               /\ tool.result.industry = GetDefault(d, "industry", <<>>)
               /\ tool.result.company = GetDefault(d, "company", <<>>)
               /\ tool.result.skills = Prefix(GetDefault(d, "skills", <<>>), 5)
               /\ tool.result.education = Prefix(GetDefault(d, "education", <<>>), 2)

\* the call's result is a profile with content, or an object with a reason
\* under "error" and a tag under "platform": the platform as the call
\* names it, or "unknown" when the call names none (None or "")
ProfileOrError ==
  \/ IsProfile(tool.result) /\ tool.result.has_valid_content
  \/ /\ ~IsProfile(tool.result)
     /\ "error" \in DOMAIN tool.result
     /\ tool.result.error # <<>>
     /\ \/ "platform" \notin call.nulls /\ tool.result.platform = call.platform
        \/ call.platform = "" /\ tool.result.platform = "unknown"

\* an exception before any record is standardized: the call names no
\* platform (None), or the validity filter or the scorer raised on a record
RaisedBeforeStandardizing ==
  \/ "platform" \in call.nulls
  \/ ValidateRaises(tool.all_results, call.platform)
  \/ /\ call.search_terms # <<>>
     /\ \E k \in 1..Len(tool.valid_results) :
          ScoreRaises(tool.valid_results[k], call.platform)

\* C28 as stated: the call returns a profile with content or an error
\* object, and an exception while validating, scoring or standardizing any
\* one record makes the result an error object.
C28_AnyExceptionIsError ==
  Returned =>
    /\ ProfileOrError
    /\ (\/ RaisedBeforeStandardizing
        \/ \E j \in 1..Len(tool.top_profiles) :
             Standardize(tool.top_profiles[j], call.platform) = StdNone)
         => ~IsProfile(tool.result)

\* C28, amended: the call always returns, a profile with content or an
\* error object, whatever the store holds and whatever the call names
\* (a platform in any case, "" or None, a limit below 1); an exception
\* while validating or scoring any one record, and the one a platform of
\* None raises, makes the result an error object; an exception while
\* standardizing a record only leaves that record out, and the result is
\* a profile exactly when some record among the first `limit` candidates
\* standardizes to a profile with content.
C28_RetrievalTotal ==
  /\ tool.pc \in {"idle", "called", "returned"}
  /\ Returned =>
       /\ ProfileOrError
       /\ RaisedBeforeStandardizing => ~IsProfile(tool.result)
       /\ ~RaisedBeforeStandardizing =>
            (IsProfile(tool.result)
               <=> \E j \in 1..Len(tool.top_profiles) :
                      Standardizes(tool.top_profiles[j], call.platform))
       /\ IsProfile(tool.result) =>
            \E j \in 1..Len(tool.top_profiles) :
               /\ Standardizes(tool.top_profiles[j], call.platform)
               /\ tool.result = Standardize(tool.top_profiles[j], call.platform)
               /\ \A i \in 1..(j - 1) : ~Standardizes(tool.top_profiles[i], call.platform)

\* a profile returned although the standardizer raised on another of the
\* records the call standardized
C28_Witness ==
  /\ Returned
  /\ IsProfile(tool.result)
  /\ \E j \in 1..Len(tool.top_profiles) :
       Standardize(tool.top_profiles[j], call.platform) = StdNone

\* a step of the ingestion run t
StepOf(t) == proc[t].kind = "fetch" /\ proc'[t] # proc[t]

\* C29: no step takes a document out of the audience store; when a store
\* operation of an ingestion run raises, that step and every later step
\* of the run leave the audience store and the client documents as they
\* are (what the run inserted stays, the client's status and
\* last_fetch_count are not written), and the run's except clause sets
\* the task's status to "failed: store error".
C29_PartialFailureKeepsInserts ==
  [][/\ audience \sqsubseteq audience'
     /\ \A t \in TaskIds :
          (StepOf(t) /\ proc'[t].err = "store error") =>
            /\ audience' = audience
            /\ clients' = clients
            /\ proc[t].pc = "except" =>
                 /\ proc'[t].pc = "cleanup"
                 /\ tasks'[t].status = "failed: store error"
            /\ proc[t].pc = "cleanup" => proc'[t].pc = "sleep"
            /\ proc[t].pc = "sleep" => (proc'[t].pc = "done" /\ t \notin DOMAIN tasks')]_vars

\* the only run there has been failed on a store operation after it had
\* inserted a record: the record is in the audience store, the client's
\* document has no last_fetch_count and its status is the registered one
C29_Witness ==
  /\ nextTask = 2
  /\ proc[1].pc = "cleanup" /\ proc[1].err = "store error"
  /\ tasks[1].status = "failed: store error"
  /\ \E d \in BagToSet(audience) : d.client_id = proc[1].client_id
  /\ "last_fetch_count" \notin DOMAIN clients[proc[1].client_id]
  /\ clients[proc[1].client_id].status = "registered"

\* C30: a trigger creates a pending task whether or not the client id is
\* in the client store; a run whose lookup finds no client goes straight
\* to its except clause with "Client not found" (or with the store's
\* error, when the lookup itself raises), and from there on calls no
\* profile source, inserts nothing and updates no client; its except
\* clause sets the status "failed: Client not found".
C30_UnknownClientFails ==
  [][/\ nextTask' # nextTask =>
          /\ tasks'[nextTask].status = "pending"
          /\ proc'[nextTask].pc = "start"
     /\ \A t \in TaskIds :
          /\ (/\ StepOf(t) /\ proc[t].pc = "find_client"
              /\ proc[t].client_id \notin DOMAIN clients)
               => /\ proc'[t].pc = "except"
                  /\ proc'[t].err \in {"Client not found", "store error"}
                  /\ served' = served /\ audience' = audience /\ clients' = clients
          /\ (StepOf(t) /\ proc'[t].err = "Client not found") =>
               /\ served' = served
               /\ audience' = audience
               /\ clients' = clients
               /\ proc[t].pc = "find_client" => proc[t].client_id \notin DOMAIN clients
               /\ proc[t].pc = "except" =>
                    /\ proc'[t].pc = "cleanup"
                    /\ tasks'[t].status = "failed: Client not found"
               /\ proc[t].pc = "cleanup" => proc'[t].pc = "sleep"
               /\ proc[t].pc = "sleep" => proc'[t].pc = "done"]_vars

\* the run of a trigger for an unregistered client id has failed, with
\* nothing fetched and nothing stored
C30_Witness ==
  /\ proc[1].pc = "cleanup" /\ proc[1].err = "Client not found"
  /\ proc[1].client_id \notin DOMAIN clients
  /\ tasks[1].status = "failed: Client not found"
  /\ served = 0
  /\ audience = EmptyBag

====
